---- MODULE Spec2Model ----
(***************************************************************************)
(* A model of adventuregame.elements: the Character (hit points, mana      *)
(* points, inventory, equipment), the multi-quantity item store, the door  *)
(* store, the room graph with its cursor, and the game-session aggregate.  *)
(***************************************************************************)
EXTENDS Integers, Sequences, FiniteSets, TLC

VARIABLES
    character,    \* the Character object (Game_State.character; NoCharacter for None)
    last,         \* the last call made: name, arguments, result, exception
    config,       \* the parsed doors.ini / rooms.ini sections the stores are built from
    doors_state,  \* the Doors_State object
    rooms_state,  \* the Rooms_State object
    game_state,   \* the Game_State object's own attributes
    items_state,  \* the Items_State object
    creatures_state  \* the Creatures_State object, which holds the Creature objects

vars == <<character, last, config, doors_state, rooms_state, game_state, items_state,
          creatures_state>>

\* The item store and the creature store.
storeVars == <<items_state, creatures_state>>

\* The dungeon: configuration and the stores built from it.
dungeonVars == <<config, doors_state, rooms_state>>

(***************************************************************************)
(* Bounds of the model.                                                    *)
(***************************************************************************)
\* Ability scores range over MinScore..MaxScore (the sums roll_stats yields).
MinScore == 3
MaxScore == 18
\* base_hit_points arguments range over 0..MaxBaseHitPoints (0: class default).
MaxBaseHitPoints == 3
\* base_mana_points arguments range over 0..MaxBaseManaPoints (0: class default).
MaxBaseManaPoints == 2
\* Damage, healing and mana amounts range over 0..MaxAmount.
MaxAmount == 4
\* Item quantities passed to pick_up_item / drop_item range over 0..MaxQty,
\* and stored quantities are kept within -MaxQty..MaxQty.
MaxQty == 3
\* Repetition counts for add_one / remove_one sequences range over 1..MaxRepeat.
MaxRepeat == 3

(***************************************************************************)
(* Values.                                                                 *)
(***************************************************************************)
Classes == {"Warrior", "Thief", "Priest", "Mage"}

Scores == MinScore..MaxScore

\* The ability score a constructor argument takes when it is not the one varied.
DefaultScore == 10

Amounts == 0..MaxAmount

ItemNames == {"Longsword", "Gold_Coin"}

ItemTitles == {"longsword", "gold coin"}

\* An Item object: only the attributes the store operations read.
Items == [internal_name : ItemNames, title : ItemTitles]

NoItem == [internal_name |-> "", title |-> ""]

\* No doors.ini / rooms.ini sections.
NoConfig == [doors |-> << >>, rooms |-> << >>]

\* A store that has not been constructed.
NotBuilt == [built |-> FALSE]

\* Game_State attributes before the object exists.
NoGameState == [character_name |-> "", character_class |-> "", characters_made |-> 0]

\* The Character attribute of a session that has built none.
NoCharacter == [character_name |-> ""]

\* An empty dict.
EmptyDict == [k \in {} |-> <<0, NoItem>>]

\* d[k] = v on a dict.
DictSet(d, k, v) == [x \in (DOMAIN d) \cup {k} |-> IF x = k THEN v ELSE d[x]]

\* del d[k] on a dict that has k.
DictDel(d, k) == [x \in (DOMAIN d) \ {k} |-> d[x]]

(***************************************************************************)
(* Items_Multi_State: a dict from internal name to (quantity, Item).  Each *)
(* operation takes the dict and returns the dict it leaves and the         *)
(* exception it raised ("none" when it returned normally).                 *)
(***************************************************************************)
Returned(contents) == [contents |-> contents, exc |-> "none"]

Raised(contents, exc) == [contents |-> contents, exc |-> exc]

\* Items_Multi_State.contains: some stored Item carries that internal name.
contains(contents, item_internal_name) ==
    \E k \in DOMAIN contents : contents[k][2].internal_name = item_internal_name

\* State.get, as Items_Multi_State inherits it: self._contents[name].
get(contents, item_internal_name) ==
    IF item_internal_name \in DOMAIN contents
    THEN [value |-> contents[item_internal_name], exc |-> "none"]
    ELSE [value |-> <<0, NoItem>>, exc |-> "KeyError"]

\* Items_Multi_State.set
set(contents, item_internal_name, item_qty, item) ==
    Returned(DictSet(contents, item_internal_name, <<item_qty, item>>))

\* State.delete, as Items_Multi_State inherits it: del self._contents[name].
delete(contents, item_internal_name) ==
    IF item_internal_name \in DOMAIN contents
    THEN Returned(DictDel(contents, item_internal_name))
    ELSE Raised(contents, "KeyError")

\* add_one storing the Item passed in also when the name is already present.
add_one_replaces_item(contents, item_internal_name, item) ==
    IF contains(contents, item_internal_name)
    THEN IF item_internal_name \in DOMAIN contents
         THEN Returned(DictSet(contents, item_internal_name,
                               <<contents[item_internal_name][1] + 1, item>>))
         ELSE Raised(contents, "KeyError")
    ELSE Returned(DictSet(contents, item_internal_name, <<1, item>>))

\* Items_Multi_State.add_one
add_one(contents, item_internal_name, item) ==
    IF contains(contents, item_internal_name)
    THEN IF item_internal_name \in DOMAIN contents
         THEN Returned(DictSet(contents, item_internal_name,
                               <<contents[item_internal_name][1] + 1,
                                 contents[item_internal_name][2]>>))
         ELSE Raised(contents, "KeyError")
    ELSE Returned(DictSet(contents, item_internal_name, <<1, item>>))

\* remove_one that always decrements, keeping an entry at quantity zero.
remove_one_keeps_zero(contents, item_internal_name) ==
    IF item_internal_name \notin DOMAIN contents
    THEN Raised(contents, "KeyError")
    ELSE Returned(DictSet(contents, item_internal_name,
                          <<contents[item_internal_name][1] - 1,
                            contents[item_internal_name][2]>>))

\* Items_Multi_State.remove_one
remove_one(contents, item_internal_name) ==
    IF item_internal_name \notin DOMAIN contents
    THEN Raised(contents, "KeyError")
    ELSE IF contents[item_internal_name][1] = 1
    THEN Returned(DictDel(contents, item_internal_name))
    ELSE Returned(DictSet(contents, item_internal_name,
                          <<contents[item_internal_name][1] - 1,
                            contents[item_internal_name][2]>>))

(***************************************************************************)
(* Ability_Scores                                                          *)
(***************************************************************************)
\* The halving rounded toward zero rather than down.
stat_mod_truncating(score) ==
    IF score >= 10 THEN (score - 10) \div 2 ELSE 0 - ((10 - score) \div 2)

\* Ability_Scores._stat_mod: math.floor((score - 10) / 2).
stat_mod(score) == (score - 10) \div 2

\* Ability_Scores.weightings
weightings ==
    [Warrior |-> <<"strength", "constitution", "dexterity", "intelligence", "charisma", "wisdom">>,
     Thief |-> <<"dexterity", "constitution", "charisma", "strength", "wisdom", "intelligence">>,
     Priest |-> <<"wisdom", "strength", "constitution", "charisma", "intelligence", "dexterity">>,
     Mage |-> <<"intelligence", "dexterity", "constitution", "strength", "wisdom", "charisma">>]

\* sum(sorted(four_rolls)[1:4]): the four dice less the lowest of them.
three_rolls_sum(four_rolls) ==
    LET lowest == CHOOSE v \in {four_rolls[i] : i \in 1..4} :
                      \A i \in 1..4 : v <= four_rolls[i]
    IN four_rolls[1] + four_rolls[2] + four_rolls[3] + four_rolls[4] - lowest

\* results_list.sort() alone: the lowest first.
sort_only(results_list) ==
    [i \in 1..Len(results_list) |->
        CHOOSE v \in {results_list[j] : j \in 1..Len(results_list)} :
            /\ Cardinality({j \in 1..Len(results_list) : results_list[j] < v}) < i
            /\ i <= Cardinality({j \in 1..Len(results_list) : results_list[j] <= v})]

\* results_list.sort() followed by results_list.reverse()
sort_reverse(results_list) ==
    [i \in 1..Len(results_list) |->
        CHOOSE v \in {results_list[j] : j \in 1..Len(results_list)} :
            /\ Cardinality({j \in 1..Len(results_list) : results_list[j] > v}) < i
            /\ i <= Cardinality({j \in 1..Len(results_list) : results_list[j] >= v})]

\* Ability_Scores.roll_stats, given the six sums of dice in the order rolled:
\* the scores it assigns, the highest to the first attribute of the weighting.
roll_stats(character_class, results_list) ==
    LET ordered == sort_reverse(results_list)
    IN [s \in {"strength", "dexterity", "constitution", "intelligence", "wisdom", "charisma"} |->
           ordered[CHOOSE index \in 1..6 : weightings[character_class][index] = s]]

(***************************************************************************)
(* Character: class tables                                                 *)
(***************************************************************************)
\* Base mana points for every class.
base_mana_points_table_all == [c \in Classes |-> IF c = "Mage" THEN 19 ELSE 16]

base_mana_points_table == [c \in {"Priest", "Mage"} |-> IF c = "Priest" THEN 16 ELSE 19]

\* The bonus growing by one with each step of the modifier.
bonus_mana_points_table_linear == [m \in -4..4 |-> IF m > 0 THEN m ELSE 0]

bonus_mana_points_table ==
    [m \in -4..4 |-> CASE m = 1 -> 1 [] m = 2 -> 4 [] m = 3 -> 9 [] m = 4 -> 16 [] OTHER -> 0]

\* The same base hit points for every class.
hitpoint_base_flat == [c \in Classes |-> 30]

hitpoint_base ==
    [c \in Classes |-> CASE c = "Warrior" -> 40 [] c = "Priest" -> 30
                         [] c = "Thief" -> 30 [] OTHER -> 20]

(***************************************************************************)
(* Character._set_up_hit_points_and_mana_points.  self carries the class   *)
(* and the ability scores; the result is self with the hit point, mana     *)
(* point and magic_key_stat attributes set, or the exception raised.       *)
(* A magic_key_stat argument of None is "" here (both are falsy).          *)
(***************************************************************************)
set_up_hit_points_and_mana_points(self, base_hit_points, base_mana_points, magic_key_stat) ==
    LET hp == IF base_hit_points # 0
              THEN base_hit_points + stat_mod(self.ability_scores.constitution) * 3
              ELSE hitpoint_base[self.character_class]
                       + stat_mod(self.ability_scores.constitution) * 3
        withHp == [self EXCEPT !.hit_point_maximum = hp, !.current_hit_points = hp]
        key == IF magic_key_stat # "" THEN magic_key_stat
               ELSE IF self.character_class = "Priest" THEN "wisdom"
               ELSE IF self.character_class = "Mage" THEN "intelligence"
               ELSE ""
        withKey == [withHp EXCEPT !.magic_key_stat = key]
        mod == stat_mod(self.ability_scores[key])
    IN  IF magic_key_stat # "" /\ magic_key_stat \notin {"intelligence", "wisdom", "charisma"}
        THEN [exc |-> "Internal_Exception", self |-> withHp]
        ELSE IF key = ""
        THEN [exc |-> "none",
              self |-> [withKey EXCEPT !.mana_point_maximum = 0, !.current_mana_points = 0]]
        ELSE IF base_mana_points # 0
        THEN IF mod \notin DOMAIN bonus_mana_points_table
             THEN [exc |-> "KeyError", self |-> withKey]
             ELSE [exc |-> "none",
                   self |-> [withKey EXCEPT
                       !.mana_point_maximum = base_mana_points + bonus_mana_points_table[mod],
                       !.current_mana_points = base_mana_points + bonus_mana_points_table[mod]]]
        ELSE IF self.character_class \in DOMAIN base_mana_points_table
        THEN IF mod \notin DOMAIN bonus_mana_points_table
             THEN [exc |-> "KeyError", self |-> withKey]
             ELSE [exc |-> "none",
                   self |-> [withKey EXCEPT
                       !.mana_point_maximum = base_mana_points_table[self.character_class]
                                                  + bonus_mana_points_table[mod],
                       !.current_mana_points = base_mana_points_table[self.character_class]
                                                   + bonus_mana_points_table[mod]]]
        ELSE [exc |-> "none",
              self |-> [withKey EXCEPT !.mana_point_maximum = 0, !.current_mana_points = 0]]

(***************************************************************************)
(* Equipment.__init__ with no items: the four slots hold None (NoItem).    *)
(***************************************************************************)
Equipment(character_class) ==
    [character_class |-> character_class,
     armor |-> NoItem, shield |-> NoItem, weapon |-> NoItem, wand |-> NoItem]

(***************************************************************************)
(* Character.__init__.  scores are the ability scores that                 *)
(* _set_up_ability_scores leaves: the six supplied, or the six roll_stats  *)
(* rolled when none is supplied.                                           *)
(***************************************************************************)
Character(character_name_str, character_class_str, base_hit_points, base_mana_points, magic_key_stat, scores) ==
    LET blank == [character_name |-> character_name_str,
                  character_class |-> character_class_str,
                  equipment |-> Equipment(character_class_str),
                  ability_scores |-> scores,
                  inventory |-> EmptyDict,
                  magic_key_stat |-> "",
                  hit_point_maximum |-> 0,
                  current_hit_points |-> 0,
                  mana_point_maximum |-> 0,
                  current_mana_points |-> 0]
    IN  IF character_class_str \notin Classes
        THEN [exc |-> "Internal_Exception", self |-> blank]
        ELSE set_up_hit_points_and_mana_points(blank, base_hit_points, base_mana_points,
                                               magic_key_stat)

(***************************************************************************)
(* Character.take_damage                                                   *)
(***************************************************************************)
\* take_damage without the clamp at 0.
take_damage_unclamped(self, damage_value) ==
    [self |-> [self EXCEPT !.current_hit_points = self.current_hit_points - damage_value],
     ret |-> damage_value]

take_damage(self, damage_value) ==
    IF self.current_hit_points - damage_value < 0
    THEN [self |-> [self EXCEPT !.current_hit_points = 0],
          ret |-> self.current_hit_points]
    ELSE [self |-> [self EXCEPT !.current_hit_points = self.current_hit_points - damage_value],
          ret |-> damage_value]

(***************************************************************************)
(* Character.heal_damage                                                   *)
(***************************************************************************)
\* heal_damage returning the amount asked for rather than the amount restored.
heal_damage_returns_request(self, healing_value) ==
    IF self.current_hit_points + healing_value > self.hit_point_maximum
    THEN [self |-> [self EXCEPT !.current_hit_points = self.hit_point_maximum],
          ret |-> healing_value]
    ELSE [self |-> [self EXCEPT !.current_hit_points = self.current_hit_points + healing_value],
          ret |-> healing_value]

heal_damage(self, healing_value) ==
    IF self.current_hit_points + healing_value > self.hit_point_maximum
    THEN [self |-> [self EXCEPT !.current_hit_points = self.hit_point_maximum],
          ret |-> self.hit_point_maximum - self.current_hit_points]
    ELSE [self |-> [self EXCEPT !.current_hit_points = self.current_hit_points + healing_value],
          ret |-> healing_value]

(***************************************************************************)
(* Character.spend_mana                                                    *)
(***************************************************************************)
\* spend_mana refusing also when the amount equals the current mana points.
spend_mana_strict(self, spent_amount) ==
    IF self.current_mana_points <= spent_amount
    THEN [self |-> self, ret |-> 0]
    ELSE [self |-> [self EXCEPT !.current_mana_points = self.current_mana_points - spent_amount],
          ret |-> spent_amount]

spend_mana(self, spent_amount) ==
    IF self.current_mana_points < spent_amount
    THEN [self |-> self, ret |-> 0]
    ELSE [self |-> [self EXCEPT !.current_mana_points = self.current_mana_points - spent_amount],
          ret |-> spent_amount]

(***************************************************************************)
(* Character.regain_mana                                                   *)
(***************************************************************************)
regain_mana(self, regaining_value) ==
    IF self.current_mana_points + regaining_value > self.mana_point_maximum
    THEN [self |-> [self EXCEPT !.current_mana_points = self.mana_point_maximum],
          ret |-> self.mana_point_maximum - self.current_mana_points]
    ELSE [self |-> [self EXCEPT !.current_mana_points = self.current_mana_points + regaining_value],
          ret |-> regaining_value]

(***************************************************************************)
(* Character.item_have_qty: the quantity held, 0 when contains() says the  *)
(* item is absent.                                                         *)
(***************************************************************************)
item_have_qty(self, item) ==
    IF ~contains(self.inventory, item.internal_name)
    THEN [value |-> 0, exc |-> "none"]
    ELSE LET got == get(self.inventory, item.internal_name)
         IN  [value |-> got.value[1], exc |-> got.exc]

\* The result of a Character method that passes on what a store operation did.
Stored(self, result) == [self |-> [self EXCEPT !.inventory = result.contents], exc |-> result.exc]

\* pick_up_item storing qty as the resulting quantity, whatever is already held.
pick_up_item_absolute(self, item, qty) ==
    LET have_qty == item_have_qty(self, item)
    IN  IF have_qty.exc # "none"
        THEN [self |-> self, exc |-> have_qty.exc]
        ELSE IF qty = 1
        THEN Stored(self, add_one(self.inventory, item.internal_name, item))
        ELSE Stored(self, set(self.inventory, item.internal_name, qty, item))

(***************************************************************************)
(* Character.pick_up_item                                                  *)
(***************************************************************************)
pick_up_item(self, item, qty) ==
    LET have_qty == item_have_qty(self, item)
    IN  IF have_qty.exc # "none"
        THEN [self |-> self, exc |-> have_qty.exc]
        ELSE IF qty = 1
        THEN Stored(self, add_one(self.inventory, item.internal_name, item))
        ELSE Stored(self, set(self.inventory, item.internal_name, qty + have_qty.value, item))

\* drop_item without the test for an item that is not held.
drop_item_unchecked(self, item, qty) ==
    LET have_qty == item_have_qty(self, item)
    IN  IF have_qty.exc # "none"
        THEN [self |-> self, exc |-> have_qty.exc]
        ELSE IF have_qty.value = qty
        THEN Stored(self, delete(self.inventory, item.internal_name))
        ELSE Stored(self, set(self.inventory, item.internal_name, have_qty.value - qty, item))

\* drop_item that stores the remaining quantity also when nothing remains.
drop_item_keeps_zero(self, item, qty) ==
    LET have_qty == item_have_qty(self, item)
    IN  IF have_qty.exc # "none"
        THEN [self |-> self, exc |-> have_qty.exc]
        ELSE IF have_qty.value = 0
        THEN [self |-> self, exc |-> "KeyError"]
        ELSE Stored(self, set(self.inventory, item.internal_name, have_qty.value - qty, item))

(***************************************************************************)
(* Character.drop_item                                                     *)
(***************************************************************************)
drop_item(self, item, qty) ==
    LET have_qty == item_have_qty(self, item)
    IN  IF have_qty.exc # "none"
        THEN [self |-> self, exc |-> have_qty.exc]
        ELSE IF have_qty.value = 0
        THEN [self |-> self, exc |-> "KeyError"]
        ELSE IF have_qty.value = qty
        THEN Stored(self, delete(self.inventory, item.internal_name))
        ELSE Stored(self, set(self.inventory, item.internal_name, have_qty.value - qty, item))

\* Character.is_alive
is_alive(self) == self.current_hit_points > 0

\* Character.is_dead
is_dead(self) == self.current_hit_points = 0

(***************************************************************************)
(* Names of rooms.  A door's internal name 'first_x_second' is the pair    *)
(* <<first, second>>, which is what internal_name.split('_x_') yields.     *)
(***************************************************************************)
RoomNames == {"Room_1,1", "Room_1,2", "Room_2,1"}

\* The names a door's internal name may hold: rooms and the exit pseudo-room.
LinkNames == RoomNames \cup {"Exit"}

\* The names in the order Python's sorted() puts them.
NameOrder == <<"Exit", "Room_1,1", "Room_1,2", "Room_2,1">>

\* The position of a name in that order.
Rank(name) == CHOOSE i \in 1..Len(NameOrder) : NameOrder[i] = name

\* sorted((a, b)) as a tuple.
sorted(a, b) == IF Rank(a) <= Rank(b) THEN <<a, b>> ELSE <<b, a>>

\* str.lower on the names.
lower(name) ==
    CASE name = "Exit" -> "exit"
      [] name = "Room_1,1" -> "room_1,1"
      [] name = "Room_1,2" -> "room_1,2"
      [] name = "Room_2,1" -> "room_2,1"

(***************************************************************************)
(* Door                                                                    *)
(***************************************************************************)
DoorTypes == {"doorway", "wooden_door", "iron_door"}

\* None where a Door is expected.
NoDoor ==
    [internal_name |-> <<"", "">>, title |-> "", door_type |-> "", is_locked |-> FALSE,
     linked_rooms_internal_names |-> {}]

\* Door.__init__: the attributes of argd, and the set of the two names in the
\* internal name.
Door(internal_name, argd) ==
    [internal_name |-> internal_name, title |-> argd.title, door_type |-> argd.door_type,
     is_locked |-> argd.is_locked,
     linked_rooms_internal_names |-> {internal_name[1], internal_name[2]}]

\* Door.subclassing_factory
subclassing_factory(internal_name, door_dict) ==
    IF door_dict.door_type \in DoorTypes
    THEN [exc |-> "none", door |-> Door(internal_name, door_dict)]
    ELSE [exc |-> "Internal_Exception", door |-> NoDoor]

\* other_room_internal_name returning the name it was given.
other_room_internal_name_same(self, room_internal_name) ==
    IF room_internal_name \notin self.linked_rooms_internal_names
    THEN [exc |-> "Internal_Exception", value |-> ""]
    ELSE [exc |-> "none", value |-> room_internal_name]

\* Door.other_room_internal_name: the linked name that is not the one given;
\* None ("") when the set holds no other name.
other_room_internal_name(self, room_internal_name) ==
    IF room_internal_name \notin self.linked_rooms_internal_names
    THEN [exc |-> "Internal_Exception", value |-> ""]
    ELSE LET others == self.linked_rooms_internal_names \ {room_internal_name}
         IN [exc |-> "none",
             value |-> IF others = {} THEN "" ELSE CHOOSE found \in others : TRUE]

\* Door.copy: a Door of the same class built from the attributes of this one.
copy(self) ==
    Door(self.internal_name,
         [title |-> self.title, door_type |-> self.door_type, is_locked |-> self.is_locked])

(***************************************************************************)
(* Doors_State: a dict of dicts of Doors, here a dict keyed by the pair of *)
(* the outer and the inner key.                                            *)
(***************************************************************************)
\* Doors_State.__init__: each door is stored under the two names of its
\* internal name, in the order the internal name has them.
Doors_State(dict_of_dicts) ==
    IF \E name \in DOMAIN dict_of_dicts :
           subclassing_factory(name, dict_of_dicts[name]).exc # "none"
    THEN [exc |-> "Internal_Exception", self |-> NotBuilt]
    ELSE [exc |-> "none",
          self |-> [built |-> TRUE,
                    contents |-> [name \in DOMAIN dict_of_dicts |->
                                     subclassing_factory(name, dict_of_dicts[name]).door]]]

\* Doors_State.contains
Doors_State_contains(self, first_room_internal_name, second_room_internal_name) ==
    <<first_room_internal_name, second_room_internal_name>> \in DOMAIN self.contents

\* Doors_State.get
Doors_State_get(self, first_room_internal_name, second_room_internal_name) ==
    IF Doors_State_contains(self, first_room_internal_name, second_room_internal_name)
    THEN [exc |-> "none",
          value |-> self.contents[<<first_room_internal_name, second_room_internal_name>>]]
    ELSE [exc |-> "KeyError", value |-> NoDoor]

(***************************************************************************)
(* Room: only the attributes the room graph reads.  A <dir>_door attribute *)
(* that rooms.ini does not give is None ("" in argd, NoDoor in the Room).  *)
(***************************************************************************)
\* The title a Room gives its copy of a door that is a doorway.
doorway_title(compass_dir) ==
    CASE compass_dir = "north" -> "north doorway"
      [] compass_dir = "east" -> "east doorway"
      [] compass_dir = "south" -> "south doorway"
      [] compass_dir = "west" -> "west doorway"

\* The title a Room gives its copy of any other door.
door_title(compass_dir) ==
    CASE compass_dir = "north" -> "north door"
      [] compass_dir = "east" -> "east door"
      [] compass_dir = "south" -> "south door"
      [] compass_dir = "west" -> "west door"

\* The pair Room.__init__ looks a door up under: the two names sorted, and
\* reversed when the first of them is the exit marker.
sorted_pair(internal_name, door_attr) ==
    LET pair == sorted(internal_name, door_attr)
    IN IF lower(pair[1]) = "exit" THEN <<pair[2], pair[1]>> ELSE pair

\* One pass of the loop over the compass directions in Room.__init__: the
\* retitled copy of the door the attribute names.
room_door(doors, internal_name, compass_dir, door_attr) ==
    IF door_attr = ""
    THEN [exc |-> "none", door |-> NoDoor]
    ELSE LET pair == sorted_pair(internal_name, door_attr)
             got == Doors_State_get(doors, pair[1], pair[2])
         IN IF got.exc # "none"
            THEN [exc |-> got.exc, door |-> NoDoor]
            ELSE [exc |-> "none",
                  door |-> [copy(got.value) EXCEPT
                               !.title = IF got.value.title = "doorway"
                                         THEN doorway_title(compass_dir)
                                         ELSE door_title(compass_dir)]]

\* None where a Container is expected.
NoContainer ==
    [internal_name |-> "", title |-> "", description |-> "", container_type |-> "",
     contents |-> << >>]

\* A Containers_State that holds no container.
NoContainers == [built |-> TRUE, contents |-> << >>]

\* State.contains, as Creatures_State and Containers_State inherit it: some
\* stored object carries that internal name.
State_contains(self, item_internal_name) ==
    \E key \in DOMAIN self.contents : self.contents[key].internal_name = item_internal_name

NoRoom ==
    [internal_name |-> "", is_entrance |-> FALSE, north_door |-> NoDoor,
     east_door |-> NoDoor, south_door |-> NoDoor, west_door |-> NoDoor,
     creature_here |-> "", container_here |-> NoContainer]

\* Room.__init__, for sections without items_here.  The Room refers to the
\* Creature object the creature store holds: creature_here is the key of that
\* object in the store, "" for None.  It raises for a creature_here or a
\* container_here the stores do not contain, and for a door it does not find.
Room(creatures, containers, doors, argd) ==
    LET north == room_door(doors, argd.internal_name, "north", argd.north_door)
        east == room_door(doors, argd.internal_name, "east", argd.east_door)
        south == room_door(doors, argd.internal_name, "south", argd.south_door)
        west == room_door(doors, argd.internal_name, "west", argd.west_door)
    IN IF argd.creature_here # "" /\ ~State_contains(creatures, argd.creature_here)
       THEN [exc |-> "Internal_Exception", self |-> NoRoom]
       ELSE IF argd.creature_here # "" /\ argd.creature_here \notin DOMAIN creatures.contents
       THEN [exc |-> "KeyError", self |-> NoRoom]
       ELSE IF argd.container_here # "" /\ ~State_contains(containers, argd.container_here)
       THEN [exc |-> "Internal_Exception", self |-> NoRoom]
       ELSE IF argd.container_here # "" /\ argd.container_here \notin DOMAIN containers.contents
       THEN [exc |-> "KeyError", self |-> NoRoom]
       ELSE IF \E got \in {north, east, south, west} : got.exc # "none"
       THEN [exc |-> "KeyError", self |-> NoRoom]
       ELSE [exc |-> "none",
             self |-> [internal_name |-> argd.internal_name,
                       is_entrance |-> argd.is_entrance,
                       north_door |-> north.door, east_door |-> east.door,
                       south_door |-> south.door, west_door |-> west.door,
                       creature_here |-> argd.creature_here,
                       container_here |-> IF argd.container_here = "" THEN NoContainer
                                          ELSE containers.contents[argd.container_here]]]

(***************************************************************************)
(* Rooms_State.  room_cursor is "" while the _room_cursor slot is unset.   *)
(***************************************************************************)
\* Storing a room without looking at its entrance flag.
store_room_no_cursor(self, room) ==
    [self EXCEPT !.rooms_objs = DictSet(self.rooms_objs, room.internal_name, room)]

\* The end of one pass of the loop in Rooms_State.__init__: the cursor is set
\* if the room is an entrance, and the room is stored.
store_room(self, room) ==
    LET marked == IF room.is_entrance
                  THEN [self EXCEPT !.room_cursor = room.internal_name]
                  ELSE self
    IN [marked EXCEPT !.rooms_objs = DictSet(marked.rooms_objs, room.internal_name, room)]

RECURSIVE build_rooms(_, _, _, _, _, _)
\* The loop in Rooms_State.__init__ from the i-th section of rooms.ini on.
build_rooms(self, creatures, containers, doors, dict_of_dicts, i) ==
    IF i > Len(dict_of_dicts)
    THEN [exc |-> "none", self |-> self]
    ELSE LET room == Room(creatures, containers, doors, dict_of_dicts[i])
         IN IF room.exc # "none"
            THEN [exc |-> room.exc, self |-> NotBuilt]
            ELSE build_rooms(store_room(self, room.self), creatures, containers, doors,
                             dict_of_dicts, i + 1)

\* Rooms_State.__init__
Rooms_State(creatures, containers, doors, dict_of_dicts) ==
    build_rooms([built |-> TRUE, rooms_objs |-> << >>, room_cursor |-> ""],
                creatures, containers, doors, dict_of_dicts, 1)

\* Rooms_State.cursor
cursor(self) == self.rooms_objs[self.room_cursor]

\* The message of the command failure move raises.
no_exit_message(exit_key) ==
    CASE exit_key = "NORTH" -> "This room has no <NORTH> exit."
      [] exit_key = "WEST" -> "This room has no <WEST> exit."
      [] exit_key = "SOUTH" -> "This room has no <SOUTH> exit."
      [] exit_key = "EAST" -> "This room has no <EAST> exit."

\* What a move call leaves: the store, the exception raised and its arguments.
Moved(self, exc, args) == [self |-> self, exc |-> exc, args |-> args]

\* The if/elif chain of move: the attribute of the exit asked for, "" when no
\* flag is set and exit_name is left unbound.
exit_name(north, west, south, east) ==
    IF north THEN "north_door" ELSE IF west THEN "west_door"
    ELSE IF south THEN "south_door" ELSE IF east THEN "east_door" ELSE ""

\* The if/elif chain of move: the key of the exit asked for.
exit_key(north, west, south, east) ==
    IF north THEN "NORTH" ELSE IF west THEN "WEST"
    ELSE IF south THEN "SOUTH" ELSE IF east THEN "EAST" ELSE ""

\* The test move opens with: more than one flag is set.
two_flags(north, west, south, east) ==
    \/ (north /\ west) \/ (north /\ south) \/ (north /\ east)
    \/ (west /\ south) \/ (west /\ east) \/ (south /\ east)

\* move raising the internal-consistency error also for a missing door.
move_no_command_failure(self, north, west, south, east) ==
    IF two_flags(north, west, south, east) THEN Moved(self, "Internal_Exception", << >>)
    ELSE IF self.room_cursor = "" THEN Moved(self, "AttributeError", << >>)
    ELSE IF exit_name(north, west, south, east) = "" THEN Moved(self, "UnboundLocalError", << >>)
    ELSE LET door == cursor(self)[exit_name(north, west, south, east)]
             other == other_room_internal_name(door, cursor(self).internal_name)
         IN IF door = NoDoor \/ door.is_locked THEN Moved(self, "Internal_Exception", << >>)
            ELSE IF other.exc # "none" THEN Moved(self, other.exc, << >>)
            ELSE IF other.value \notin DOMAIN self.rooms_objs THEN Moved(self, "KeyError", << >>)
            ELSE Moved([self EXCEPT !.room_cursor = self.rooms_objs[other.value].internal_name],
                       "none", << >>)

\* move without the test of the door's is_locked attribute.
move_through_locked(self, north, west, south, east) ==
    IF two_flags(north, west, south, east) THEN Moved(self, "Internal_Exception", << >>)
    ELSE IF self.room_cursor = "" THEN Moved(self, "AttributeError", << >>)
    ELSE IF exit_name(north, west, south, east) = "" THEN Moved(self, "UnboundLocalError", << >>)
    ELSE LET door == cursor(self)[exit_name(north, west, south, east)]
             other == other_room_internal_name(door, cursor(self).internal_name)
         IN IF door = NoDoor
            THEN Moved(self, "Bad_Command_Exception",
                       <<"MOVE", no_exit_message(exit_key(north, west, south, east))>>)
            ELSE IF other.exc # "none" THEN Moved(self, other.exc, << >>)
            ELSE IF other.value \notin DOMAIN self.rooms_objs THEN Moved(self, "KeyError", << >>)
            ELSE Moved([self EXCEPT !.room_cursor = self.rooms_objs[other.value].internal_name],
                       "none", << >>)

\* Rooms_State.move.  Reading the cursor of a store whose _room_cursor slot is
\* unset raises AttributeError; with no flag set exit_name is unbound.
move(self, north, west, south, east) ==
    IF two_flags(north, west, south, east) THEN Moved(self, "Internal_Exception", << >>)
    ELSE IF self.room_cursor = "" THEN Moved(self, "AttributeError", << >>)
    ELSE IF exit_name(north, west, south, east) = "" THEN Moved(self, "UnboundLocalError", << >>)
    ELSE LET door == cursor(self)[exit_name(north, west, south, east)]
             other == other_room_internal_name(door, cursor(self).internal_name)
         IN IF door = NoDoor
            THEN Moved(self, "Bad_Command_Exception",
                       <<"MOVE", no_exit_message(exit_key(north, west, south, east))>>)
            ELSE IF door.is_locked THEN Moved(self, "Internal_Exception", << >>)
            ELSE IF other.exc # "none" THEN Moved(self, other.exc, << >>)
            ELSE IF other.value \notin DOMAIN self.rooms_objs THEN Moved(self, "KeyError", << >>)
            ELSE Moved([self EXCEPT !.room_cursor = self.rooms_objs[other.value].internal_name],
                       "none", << >>)

(***************************************************************************)
(* Equipment and the Character's equip / unequip methods.  An Item carries *)
(* its class as item_type, the value Item.subclassing_factory chose the    *)
(* class by; equipment_slot is the <slot> of the method called.            *)
(***************************************************************************)
EquipmentSlots == {"armor", "shield", "weapon", "wand"}

\* Equipment.equip_<slot>: the isinstance test, then _equip.
Equipment_equip(self, equipment_slot, item) ==
    IF item.item_type # equipment_slot
    THEN [self |-> self, exc |-> "Internal_Exception"]
    ELSE [self |-> [self EXCEPT ![equipment_slot] = item], exc |-> "none"]

\* Equipment.unequip_<slot>, which is _unequip.
Equipment_unequip(self, equipment_slot) == [self EXCEPT ![equipment_slot] = NoItem]

\* equip_<slot> without the test that the inventory contains the item.
equip_not_held(self, equipment_slot, item) ==
    LET equipped == Equipment_equip(self.equipment, equipment_slot, item)
    IN [self |-> [self EXCEPT !.equipment = equipped.self], exc |-> equipped.exc]

\* Character.equip_armor, equip_shield, equip_weapon, equip_wand
equip(self, equipment_slot, item) ==
    IF ~contains(self.inventory, item.internal_name)
    THEN [self |-> self, exc |-> "Internal_Exception"]
    ELSE LET equipped == Equipment_equip(self.equipment, equipment_slot, item)
         IN [self |-> [self EXCEPT !.equipment = equipped.self], exc |-> equipped.exc]

\* Character.unequip_armor, unequip_shield, unequip_weapon, unequip_wand
unequip(self, equipment_slot) ==
    [self EXCEPT !.equipment = Equipment_unequip(self.equipment, equipment_slot)]

(***************************************************************************)
(* The ability and the item a Character attacks with.                      *)
(***************************************************************************)
\* Character._attack_or_damage_stat_dependency
attack_or_damage_stat_dependency(self) ==
    IF \/ self.character_class \in {"Warrior", "Priest"}
       \/ self.character_class = "Mage" /\ self.equipment.weapon # NoItem
    THEN "strength"
    ELSE IF self.character_class = "Thief"
    THEN "dexterity"
    ELSE "intelligence"

\* Character._item_attacking_with
item_attacking_with(self) ==
    IF self.equipment.wand # NoItem THEN self.equipment.wand
    ELSE IF self.equipment.weapon # NoItem THEN self.equipment.weapon
    ELSE NoItem

(***************************************************************************)
(* Items_State                                                             *)
(***************************************************************************)
\* The item_type values Item.subclassing_factory has a class for.
ItemTypes == {"armor", "coin", "potion", "key", "shield", "wand", "weapon", "oddment"}

\* Item.subclassing_factory: the Item of the class item_type names, carrying
\* the attributes of its section.
Item_subclassing_factory(internal_name, item_dict) ==
    IF item_dict.item_type \in ItemTypes
    THEN [exc |-> "none",
          item |-> [internal_name |-> internal_name, title |-> item_dict.title,
                    item_type |-> item_dict.item_type]]
    ELSE [exc |-> "Internal_Exception", item |-> NoItem]

\* Items_State.__init__
Items_State(dict_of_dicts) ==
    IF \E name \in DOMAIN dict_of_dicts :
           Item_subclassing_factory(name, dict_of_dicts[name]).exc # "none"
    THEN [exc |-> "Internal_Exception", self |-> NotBuilt]
    ELSE [exc |-> "none",
          self |-> [built |-> TRUE,
                    contents |-> [name \in DOMAIN dict_of_dicts |->
                                     Item_subclassing_factory(name, dict_of_dicts[name]).item]]]

(***************************************************************************)
(* Creature: a Character with the attributes of its creatures.ini section. *)
(* The inventory_items value '[1xA,2xB]' of a section is the sequence      *)
(* <<<<1, "A">>, <<2, "B">>>> that _process_list_value makes of it;         *)
(* equipment_argd is the dict of its <slot>_equipped values.               *)
(***************************************************************************)
\* The <slot>_equipped keys in the order _separate_argd_into_different_arg_sets
\* enters them in equipment_argd.
EquipmentKeys == <<"weapon_equipped", "armor_equipped", "shield_equipped", "wand_equipped">>

\* The method _init_inventory_and_equipment calls for a key: equip_<slot>.
SlotOf(equipment_key) ==
    CASE equipment_key = "weapon_equipped" -> "weapon"
      [] equipment_key = "armor_equipped" -> "armor"
      [] equipment_key = "shield_equipped" -> "shield"
      [] equipment_key = "wand_equipped" -> "wand"

RECURSIVE pick_up_inventory(_, _, _, _)
\* The first loop of _init_inventory_and_equipment from the i-th pair on.
pick_up_inventory(self, items, inventory_qty_name_pairs, i) ==
    IF i > Len(inventory_qty_name_pairs)
    THEN [exc |-> "none", self |-> self]
    ELSE LET item_qty == inventory_qty_name_pairs[i][1]
             item_internal_name == inventory_qty_name_pairs[i][2]
         IN IF item_internal_name \notin DOMAIN items.contents
            THEN [exc |-> "KeyError", self |-> self]
            ELSE LET picked == pick_up_item(self, items.contents[item_internal_name], item_qty)
                 IN IF picked.exc # "none"
                    THEN picked
                    ELSE pick_up_inventory(picked.self, items, inventory_qty_name_pairs, i + 1)

RECURSIVE equip_equipment(_, _, _, _)
\* The second loop of _init_inventory_and_equipment from the i-th key on.
equip_equipment(self, items, equipment_argd, i) ==
    IF i > Len(EquipmentKeys)
    THEN [exc |-> "none", self |-> self]
    ELSE IF EquipmentKeys[i] \notin DOMAIN equipment_argd
    THEN equip_equipment(self, items, equipment_argd, i + 1)
    ELSE LET item_internal_name == equipment_argd[EquipmentKeys[i]]
         IN IF ~State_contains(items, item_internal_name)
            THEN [exc |-> "Internal_Exception", self |-> self]
            ELSE LET equipped == equip(self, SlotOf(EquipmentKeys[i]),
                                       items.contents[item_internal_name])
                 IN IF equipped.exc # "none"
                    THEN equipped
                    ELSE equip_equipment(equipped.self, items, equipment_argd, i + 1)

\* Creature.__init__ skipping the test of the inventory names against the
\* item store.
Creature_unchecked(items, internal_name, argd) ==
    LET made == Character(argd.character_name, argd.character_class, argd.base_hit_points,
                          argd.base_mana_points, argd.magic_key_stat, argd.scores)
        named == made.self @@ [internal_name |-> internal_name, title |-> argd.title,
                               description_dead |-> argd.description_dead]
        picked == pick_up_inventory(named, items, argd.inventory_items, 1)
        equipped == equip_equipment(picked.self, items, argd.equipment_argd, 1)
    IN IF made.exc # "none" THEN [exc |-> made.exc, self |-> NoCharacter]
       ELSE IF picked.exc # "none" THEN [exc |-> picked.exc, self |-> NoCharacter]
       ELSE IF equipped.exc # "none" THEN [exc |-> equipped.exc, self |-> NoCharacter]
       ELSE equipped

\* Creature.__init__: _separate_argd_into_different_arg_sets raises if the
\* item store lacks a name of inventory_items; Character.__init__ follows,
\* then _init_inventory_and_equipment.
Creature(items, internal_name, argd) ==
    LET made == Character(argd.character_name, argd.character_class, argd.base_hit_points,
                          argd.base_mana_points, argd.magic_key_stat, argd.scores)
        named == made.self @@ [internal_name |-> internal_name, title |-> argd.title,
                               description_dead |-> argd.description_dead]
        picked == pick_up_inventory(named, items, argd.inventory_items, 1)
        equipped == equip_equipment(picked.self, items, argd.equipment_argd, 1)
    IN IF \E i \in 1..Len(argd.inventory_items) :
              ~State_contains(items, argd.inventory_items[i][2])
       THEN [exc |-> "Internal_Exception", self |-> NoCharacter]
       ELSE IF made.exc # "none" THEN [exc |-> made.exc, self |-> NoCharacter]
       ELSE IF picked.exc # "none" THEN [exc |-> picked.exc, self |-> NoCharacter]
       ELSE IF equipped.exc # "none" THEN [exc |-> equipped.exc, self |-> NoCharacter]
       ELSE equipped

RECURSIVE build_creatures(_, _, _, _)
\* The loop of Creatures_State.__init__ from the i-th section on.
build_creatures(self, items, dict_of_dicts, i) ==
    IF i > Len(dict_of_dicts)
    THEN [exc |-> "none", self |-> self]
    ELSE LET creature == Creature(items, dict_of_dicts[i].internal_name, dict_of_dicts[i])
         IN IF creature.exc # "none"
            THEN [exc |-> creature.exc, self |-> NotBuilt]
            ELSE build_creatures([self EXCEPT !.contents =
                                     DictSet(self.contents, creature.self.internal_name,
                                             creature.self)],
                                 items, dict_of_dicts, i + 1)

\* Creatures_State.__init__, the sections in the order of creatures.ini.
Creatures_State(items, dict_of_dicts) ==
    build_creatures([built |-> TRUE, contents |-> << >>], items, dict_of_dicts, 1)

\* convert_to_corpse giving the corpse one of each item.
convert_to_corpse_one_each(self) ==
    [internal_name |-> self.internal_name,
     title |-> self.title \o " corpse",
     description |-> self.description_dead,
     container_type |-> "corpse",
     contents |-> [item_internal_name \in DOMAIN self.inventory |->
                      <<1, self.inventory[item_internal_name][2]>>]]

\* Creature.convert_to_corpse: a Corpse built with no contents, then set to
\* hold each entry of the inventory.
convert_to_corpse(self) ==
    [internal_name |-> self.internal_name,
     title |-> self.title \o " corpse",
     description |-> self.description_dead,
     container_type |-> "corpse",
     contents |-> [item_internal_name \in DOMAIN self.inventory |->
                      <<self.inventory[item_internal_name][1],
                        self.inventory[item_internal_name][2]>>]]

(***************************************************************************)
(* The blow that the game deals a room's creature.  The command processor  *)
(* that deals it is no part of elements.py; the step is the one the        *)
(* lifecycle of a Creature is described to take: the creature takes the    *)
(* damage and, once dead, its room holds its corpse in its stead.          *)
(***************************************************************************)
attack_creature(room, creature, damage_value) ==
    LET hit == take_damage(creature, damage_value)
    IN [creature |-> hit.self,
        ret |-> hit.ret,
        room |-> IF is_dead(hit.self)
                 THEN [room EXCEPT !.creature_here = "",
                                   !.container_here = convert_to_corpse(hit.self)]
                 ELSE room]

(***************************************************************************)
(* Game_State.  self holds _character_name and _character_class (None is   *)
(* ""; both are falsy) and a count of the Character objects constructed    *)
(* for the session; character is the character attribute.  results_list   *)
(* is what the dice give if a Character is constructed.                    *)
(***************************************************************************)
\* What a setter leaves: the session, its Character, the exception raised.
Incepted(self, character_obj, exc) == [self |-> self, character |-> character_obj, exc |-> exc]

\* _incept_character_obj_if_possible without the test that no Character exists.
incept_character_obj_again(self, character_obj, results_list) ==
    IF self.character_name # "" /\ self.character_class # ""
    THEN IF self.character_class \notin Classes
         THEN Incepted(self, character_obj, "Internal_Exception")
         ELSE LET made == Character(self.character_name, self.character_class, 0, 0, "",
                                    roll_stats(self.character_class, results_list))
              IN IF made.exc # "none"
                 THEN Incepted(self, character_obj, made.exc)
                 ELSE Incepted([self EXCEPT !.characters_made = self.characters_made + 1],
                               made.self, "none")
    ELSE Incepted(self, character_obj, "none")

\* Game_State._incept_character_obj_if_possible
incept_character_obj_if_possible(self, character_obj, results_list) ==
    IF character_obj = NoCharacter /\ self.character_name # "" /\ self.character_class # ""
    THEN IF self.character_class \notin Classes
         THEN Incepted(self, character_obj, "Internal_Exception")
         ELSE LET made == Character(self.character_name, self.character_class, 0, 0, "",
                                    roll_stats(self.character_class, results_list))
              IN IF made.exc # "none"
                 THEN Incepted(self, character_obj, made.exc)
                 ELSE Incepted([self EXCEPT !.characters_made = self.characters_made + 1],
                               made.self, "none")
    ELSE Incepted(self, character_obj, "none")

\* The character_name setter storing the name after the attempt to construct.
set_character_name_late(self, character_obj, name_str, results_list) ==
    LET after == incept_character_obj_if_possible(self, character_obj, results_list)
    IN Incepted([after.self EXCEPT !.character_name = name_str], after.character, after.exc)

\* Game_State.character_name setter
set_character_name(self, character_obj, name_str, results_list) ==
    incept_character_obj_if_possible([self EXCEPT !.character_name = name_str],
                                     character_obj, results_list)

\* Game_State.character_class setter
set_character_class(self, character_obj, class_str, results_list) ==
    incept_character_obj_if_possible([self EXCEPT !.character_class = class_str],
                                     character_obj, results_list)

(***************************************************************************)
(* The record of the last call made: its name, arguments, return value and *)
(* the exception it raised ("none" when it returned normally).             *)
(***************************************************************************)
Call(op, name, item, arg, ret, exc) ==
    [op |-> op, name |-> name, item |-> item, arg |-> arg, ret |-> ret, exc |-> exc]

\* No dungeon is loaded.
NoDungeon ==
    /\ config = NoConfig
    /\ doors_state = NotBuilt
    /\ rooms_state = NotBuilt
    /\ items_state = NotBuilt
    /\ creatures_state = NotBuilt

\* No game session is held.
NoGame == game_state = NoGameState

\* All six ability scores at DefaultScore, except those given in the record over.
ScoresWith(over) ==
    [s \in {"strength", "dexterity", "constitution", "intelligence", "wisdom", "charisma"} |->
        IF s \in DOMAIN over THEN over[s] ELSE DefaultScore]

(***************************************************************************)
(* Initial states: a Character as its constructor leaves it.               *)
(***************************************************************************)
\* Any class, base-hit-point argument and constitution; no mana arguments.
InitHitPoints ==
    \E c \in Classes, b \in 0..MaxBaseHitPoints, con \in Scores :
        LET made == Character("Lidda", c, b, 0, "", ScoresWith([constitution |-> con]))
        IN  /\ made.exc = "none"
            /\ character = made.self
            /\ last = Call("__init__", "", NoItem, b, 0, "none")
            /\ NoDungeon /\ NoGame

(***************************************************************************)
(* Actions on the hit points.                                              *)
(***************************************************************************)
TakeDamage ==
    \E d \in Amounts :
        LET r == take_damage(character, d)
        IN  /\ character' = r.self
            /\ last' = Call("take_damage", "", NoItem, d, r.ret, "none")
            /\ UNCHANGED <<dungeonVars, storeVars, game_state>>

HealDamage ==
    \E a \in Amounts :
        LET r == heal_damage(character, a)
        IN  /\ character' = r.self
            /\ last' = Call("heal_damage", "", NoItem, a, r.ret, "none")
            /\ UNCHANGED <<dungeonVars, storeVars, game_state>>

NextHitPoints == TakeDamage \/ HealDamage

SpecHitPoints == InitHitPoints /\ [][NextHitPoints]_vars

(***************************************************************************)
(* Initial states and actions for the mana points.                         *)
(***************************************************************************)
MagicKeyStats == {"intelligence", "wisdom", "charisma"}

\* Any class, base-mana argument and magic_key_stat argument ("": not given);
\* one of the three mental scores takes any value.
InitManaPoints ==
    \E c \in Classes, bm \in 0..MaxBaseManaPoints, k \in MagicKeyStats \cup {""},
       stat \in MagicKeyStats, s \in Scores :
        LET made == Character("Lidda", c, 0, bm, k, ScoresWith([x \in {stat} |-> s]))
        IN  /\ made.exc = "none"
            /\ character = made.self
            /\ last = Call("__init__", "", NoItem, bm, 0, "none")
            /\ NoDungeon /\ NoGame

SpendMana ==
    \E a \in Amounts :
        LET r == spend_mana(character, a)
        IN  /\ character' = r.self
            /\ last' = Call("spend_mana", "", NoItem, a, r.ret, "none")
            /\ UNCHANGED <<dungeonVars, storeVars, game_state>>

RegainMana ==
    \E a \in Amounts :
        LET r == regain_mana(character, a)
        IN  /\ character' = r.self
            /\ last' = Call("regain_mana", "", NoItem, a, r.ret, "none")
            /\ UNCHANGED <<dungeonVars, storeVars, game_state>>

NextManaPoints == SpendMana \/ RegainMana

SpecManaPoints == InitManaPoints /\ [][NextManaPoints]_vars

(***************************************************************************)
(* All four point operations on one Character.                             *)
(***************************************************************************)
NextPoints == TakeDamage \/ HealDamage \/ SpendMana \/ RegainMana

SpecPoints == InitHitPoints /\ [][NextPoints]_vars

(***************************************************************************)
(* The Character's inventory.  A Character is built with an empty          *)
(* inventory.  add_one and remove_one are called on the inventory with the *)
(* internal name of the Item passed, as their parameter documentation and  *)
(* every caller in the module have it.                                     *)
(***************************************************************************)
InitInventory ==
    /\ character = Character("Lidda", "Warrior", 0, 0, "", ScoresWith(<< >>)).self
    /\ last = Call("__init__", "", NoItem, 0, 0, "none")
    /\ NoDungeon /\ NoGame

Quantities == 0..MaxQty

\* Every stored quantity stays within -MaxQty..MaxQty.
WithinQty(contents) ==
    \A k \in DOMAIN contents : contents[k][1] \in -MaxQty..MaxQty

AddOne ==
    \E item \in Items :
        LET r == add_one(character.inventory, item.internal_name, item)
        IN  /\ WithinQty(r.contents)
            /\ character' = [character EXCEPT !.inventory = r.contents]
            /\ last' = Call("add_one", item.internal_name, item, 1, 0, r.exc)
            /\ UNCHANGED <<dungeonVars, storeVars, game_state>>

RemoveOne ==
    \E name \in ItemNames :
        LET r == remove_one(character.inventory, name)
        IN  /\ WithinQty(r.contents)
            /\ character' = [character EXCEPT !.inventory = r.contents]
            /\ last' = Call("remove_one", name, NoItem, 1, 0, r.exc)
            /\ UNCHANGED <<dungeonVars, storeVars, game_state>>

PickUpItem ==
    \E item \in Items, qty \in Quantities :
        LET r == pick_up_item(character, item, qty)
        IN  /\ WithinQty(r.self.inventory)
            /\ character' = r.self
            /\ last' = Call("pick_up_item", item.internal_name, item, qty, 0, r.exc)
            /\ UNCHANGED <<dungeonVars, storeVars, game_state>>

DropItem ==
    \E item \in Items, qty \in Quantities :
        LET r == drop_item(character, item, qty)
        IN  /\ WithinQty(r.self.inventory)
            /\ character' = r.self
            /\ last' = Call("drop_item", item.internal_name, item, qty, 0, r.exc)
            /\ UNCHANGED <<dungeonVars, storeVars, game_state>>

NextInventory == AddOne \/ RemoveOne \/ PickUpItem \/ DropItem

SpecInventory == InitInventory /\ [][NextInventory]_vars

(***************************************************************************)
(* The dungeon.  The configurations are those of a three-room dungeon laid *)
(* out as the rooms of the test fixture are, with an exit door added: each *)
(* door is left out or is of one of the three kinds of the fixture, and    *)
(* its internal name has the two room names in either order.               *)
(***************************************************************************)
\* The rooms in the order of the sections of rooms.ini.
RoomOrder == <<"Room_1,1", "Room_1,2", "Room_2,1">>

\* Where doors can be: the two names and, for each that is a room, the
\* attribute of that room which names the other.
Links ==
    {[a |-> "Room_1,1", a_door |-> "east_door", b |-> "Room_1,2", b_door |-> "west_door"],
     [a |-> "Room_1,1", a_door |-> "north_door", b |-> "Room_2,1", b_door |-> "south_door"],
     [a |-> "Room_1,2", a_door |-> "north_door", b |-> "Exit", b_door |-> ""]}

\* The sections a door of doors.ini can have.
DoorArgds ==
    {[title |-> "doorway", door_type |-> "doorway", is_locked |-> FALSE],
     [title |-> "wooden door", door_type |-> "wooden_door", is_locked |-> FALSE],
     [title |-> "iron door", door_type |-> "iron_door", is_locked |-> TRUE]}

\* The two internal names a door at a link can be given.
DoorNamesOf(link) == {<<link.a, link.b>>, <<link.b, link.a>>}

\* The doors.ini contents: at most one door at each link.
DoorsConfigs ==
    {doors \in UNION {[names -> DoorArgds] :
                         names \in SUBSET UNION {DoorNamesOf(link) : link \in Links}} :
        \A link \in Links : Cardinality(DOMAIN doors \cap DoorNamesOf(link)) <= 1}

\* The value of a room's <dir>_door attribute in rooms.ini: the name on the
\* other side of the door doors.ini has there, "" when it has none.
DoorAttr(doors, room, door_attr) ==
    LET there == {link \in Links : /\ DOMAIN doors \cap DoorNamesOf(link) # {}
                                   /\ \/ link.a = room /\ link.a_door = door_attr
                                      \/ link.b = room /\ link.b_door = door_attr}
    IN IF there = {} THEN ""
       ELSE LET link == CHOOSE link \in there : TRUE
            IN IF link.a = room THEN link.b ELSE link.a

\* The rooms.ini contents that go with doors.ini, the rooms of entrances
\* carrying is_entrance=true.
RoomsConfig(doors, entrances) ==
    [i \in 1..Len(RoomOrder) |->
        [internal_name |-> RoomOrder[i],
         is_entrance |-> RoomOrder[i] \in entrances,
         north_door |-> DoorAttr(doors, RoomOrder[i], "north_door"),
         east_door |-> DoorAttr(doors, RoomOrder[i], "east_door"),
         south_door |-> DoorAttr(doors, RoomOrder[i], "south_door"),
         west_door |-> DoorAttr(doors, RoomOrder[i], "west_door"),
         creature_here |-> "", container_here |-> ""]]

\* The flags of a call that passes none.
NoFlags == [north |-> FALSE, west |-> FALSE, south |-> FALSE, east |-> FALSE]

InitDungeon ==
    /\ \E doors \in DoorsConfigs, entrances \in SUBSET RoomNames :
           /\ Cardinality(entrances) <= 2
           /\ config = [doors |-> doors, rooms |-> RoomsConfig(doors, entrances)]
    /\ doors_state = NotBuilt
    /\ rooms_state = NotBuilt
    /\ items_state = NotBuilt
    /\ creatures_state = NotBuilt
    /\ character = NoCharacter
    /\ last = Call("", "", NoItem, NoFlags, << >>, "none")
    /\ NoGame

\* doors_state = Doors_State(**doors_ini.sections)
BuildDoors ==
    /\ doors_state = NotBuilt
    /\ last.op = ""
    /\ LET made == Doors_State(config.doors)
       IN /\ doors_state' = made.self
          /\ last' = Call("Doors_State", "", NoItem, NoFlags, << >>, made.exc)
    /\ UNCHANGED <<character, config, rooms_state, storeVars, game_state>>

\* rooms_state = Rooms_State(..., doors_state, ..., **rooms_ini.sections)
BuildRooms ==
    /\ doors_state # NotBuilt
    /\ rooms_state = NotBuilt
    /\ last.op = "Doors_State"
    /\ LET made == Rooms_State(creatures_state, NoContainers, doors_state, config.rooms)
       IN /\ rooms_state' = made.self
          /\ last' = Call("Rooms_State", "", NoItem, NoFlags, << >>, made.exc)
    /\ UNCHANGED <<character, config, doors_state, storeVars, game_state>>

\* rooms_state.move(north=..., west=..., south=..., east=...)
Move ==
    /\ rooms_state # NotBuilt
    /\ \E north \in BOOLEAN, west \in BOOLEAN, south \in BOOLEAN, east \in BOOLEAN :
           LET moved == move(rooms_state, north, west, south, east)
           IN /\ rooms_state' = moved.self
              /\ last' = Call("move", rooms_state.room_cursor, NoItem,
                              [north |-> north, west |-> west, south |-> south, east |-> east],
                              moved.args, moved.exc)
    /\ UNCHANGED <<character, config, doors_state, storeVars, game_state>>

NextDungeon == BuildDoors \/ BuildRooms \/ Move

SpecDungeon == InitDungeon /\ [][NextDungeon]_vars

(***************************************************************************)
(* The game session: a Game_State as its constructor leaves it, and        *)
(* assignments to its character_name and character_class properties.       *)
(***************************************************************************)
\* The strings assigned to character_name ("": an empty name).
NameInputs == {"", "Lidda", "Mialee"}

\* The strings assigned to character_class: the four classes, one that is
\* none of them, and the empty string.
ClassInputs == Classes \cup {"Ranger", ""}

\* The sums of the highest three of four dice the model draws from.
RollSums == {MinScore, DefaultScore, MaxScore}

\* What six rolls can give, in the order rolled.
RolledLists == [1..6 -> RollSums]

\* The rolls handed to a call that constructs no Character.
NotRolled == [i \in 1..6 |-> DefaultScore]

\* The rolls a setter call can meet: any while the session has no Character.
Rolls == IF character = NoCharacter THEN RolledLists ELSE {NotRolled}

InitGame ==
    /\ game_state = NoGameState
    /\ character = NoCharacter
    /\ last = Call("__init__", "", NoItem, 0, 0, "none")
    /\ NoDungeon

\* game_state.character_name = name_str
SetCharacterName ==
    \E name_str \in NameInputs, results_list \in Rolls :
        LET after == set_character_name(game_state, character, name_str, results_list)
        IN /\ after.self.characters_made = game_state.characters_made => results_list = NotRolled
           /\ game_state' = after.self
           /\ character' = after.character
           /\ last' = Call("character_name", name_str, NoItem, 0, 0, after.exc)
           /\ UNCHANGED <<dungeonVars, storeVars>>

\* game_state.character_class = class_str
SetCharacterClass ==
    \E class_str \in ClassInputs, results_list \in Rolls :
        LET after == set_character_class(game_state, character, class_str, results_list)
        IN /\ after.self.characters_made = game_state.characters_made => results_list = NotRolled
           /\ game_state' = after.self
           /\ character' = after.character
           /\ last' = Call("character_class", class_str, NoItem, 0, 0, after.exc)
           /\ UNCHANGED <<dungeonVars, storeVars>>

NextGame == SetCharacterName \/ SetCharacterClass

SpecGame == InitGame /\ [][NextGame]_vars

(***************************************************************************)
(* The Character's equipment: items of the fixture, one of each class that *)
(* can be equipped and one that cannot, picked up, dropped, equipped and   *)
(* unequipped.                                                             *)
(***************************************************************************)
\* A Character holds at most MaxGearQty of each item.
MaxGearQty == 1

Gear ==
    {[internal_name |-> "Scale_Mail", title |-> "scale mail armor", item_type |-> "armor"],
     [internal_name |-> "Shield", title |-> "shield", item_type |-> "shield"],
     [internal_name |-> "Longsword", title |-> "longsword", item_type |-> "weapon"],
     [internal_name |-> "Magic_Wand", title |-> "magic wand", item_type |-> "wand"],
     [internal_name |-> "Gold_Coin", title |-> "gold coin", item_type |-> "coin"]}

InitEquipment ==
    /\ \E c \in Classes :
           character = Character("Lidda", c, 0, 0, "", ScoresWith(<< >>)).self
    /\ last = Call("__init__", "", NoItem, 0, 0, "none")
    /\ NoDungeon /\ NoGame

\* character.pick_up_item(item)
PickUpGear ==
    \E item \in Gear :
        LET r == pick_up_item(character, item, 1)
        IN /\ \A name \in DOMAIN r.self.inventory : r.self.inventory[name][1] <= MaxGearQty
           /\ character' = r.self
           /\ last' = Call("pick_up_item", item.internal_name, item, 1, 0, r.exc)
           /\ UNCHANGED <<dungeonVars, storeVars, game_state>>

\* character.drop_item(item)
DropGear ==
    \E item \in Gear :
        LET r == drop_item(character, item, 1)
        IN /\ character' = r.self
           /\ last' = Call("drop_item", item.internal_name, item, 1, 0, r.exc)
           /\ UNCHANGED <<dungeonVars, storeVars, game_state>>

\* character.equip_armor(item)
EquipArmor ==
    \E item \in Gear :
        LET r == equip(character, "armor", item)
        IN /\ character' = r.self
           /\ last' = Call("equip_armor", item.internal_name, item, 0, 0, r.exc)
           /\ UNCHANGED <<dungeonVars, storeVars, game_state>>

\* character.equip_shield(item)
EquipShield ==
    \E item \in Gear :
        LET r == equip(character, "shield", item)
        IN /\ character' = r.self
           /\ last' = Call("equip_shield", item.internal_name, item, 0, 0, r.exc)
           /\ UNCHANGED <<dungeonVars, storeVars, game_state>>

\* character.equip_weapon(item)
EquipWeapon ==
    \E item \in Gear :
        LET r == equip(character, "weapon", item)
        IN /\ character' = r.self
           /\ last' = Call("equip_weapon", item.internal_name, item, 0, 0, r.exc)
           /\ UNCHANGED <<dungeonVars, storeVars, game_state>>

\* character.equip_wand(item)
EquipWand ==
    \E item \in Gear :
        LET r == equip(character, "wand", item)
        IN /\ character' = r.self
           /\ last' = Call("equip_wand", item.internal_name, item, 0, 0, r.exc)
           /\ UNCHANGED <<dungeonVars, storeVars, game_state>>

\* character.unequip_<slot>()
Unequip ==
    \E equipment_slot \in EquipmentSlots :
        /\ character' = unequip(character, equipment_slot)
        /\ last' = Call("unequip", equipment_slot, NoItem, 0, 0, "none")
        /\ UNCHANGED <<dungeonVars, storeVars, game_state>>

NextEquipment ==
    \/ PickUpGear \/ DropGear
    \/ EquipArmor \/ EquipShield \/ EquipWeapon \/ EquipWand
    \/ Unequip

SpecEquipment == InitEquipment /\ [][NextEquipment]_vars

(***************************************************************************)
(* The doors of a door store, asked for the room on their other side.      *)
(***************************************************************************)
InitDoors ==
    /\ \E doors \in DoorsConfigs :
           /\ config = [doors |-> doors, rooms |-> << >>]
           /\ doors_state = Doors_State(doors).self
    /\ rooms_state = NotBuilt
    /\ items_state = NotBuilt
    /\ creatures_state = NotBuilt
    /\ character = NoCharacter
    /\ last = Call("Doors_State", "", NoItem, <<"", "">>, "", "none")
    /\ NoGame

\* door.other_room_internal_name(room_internal_name), door being any door of
\* the store.
OtherRoom ==
    /\ \E key \in DOMAIN doors_state.contents, room_internal_name \in LinkNames :
           LET door == doors_state.contents[key]
               other == other_room_internal_name(door, room_internal_name)
           IN last' = Call("other_room_internal_name", room_internal_name, NoItem,
                           door.internal_name, other.value, other.exc)
    /\ UNCHANGED <<character, dungeonVars, storeVars, game_state>>

NextDoors == OtherRoom

SpecDoors == InitDoors /\ [][NextDoors]_vars

(***************************************************************************)
(* The creature store built from one section of creatures.ini and an item  *)
(* store that holds the fixture's gear, or all of it but one item.         *)
(***************************************************************************)
\* The sections of items.ini for the items of Gear with these internal names.
ItemsConfig(names) ==
    [name \in names |->
        LET item == CHOOSE item \in Gear : item.internal_name = name
        IN [title |-> item.title, item_type |-> item.item_type]]

GearNames == {item.internal_name : item \in Gear}

\* The inventory_items values of a section: one or two quantity-name pairs.
InventoryExpressions ==
    {<<pair>> : pair \in (1..MaxQty) \X GearNames}
        \cup {<<<<1, first>>, <<MaxQty, second>>>> : first \in GearNames, second \in GearNames}

\* The <slot>_equipped values of a section: none, or one naming any item.
EquipmentArgds ==
    {[key \in {} |-> ""]}
        \cup {[key \in {equipment_key} |-> name] :
                 equipment_key \in {EquipmentKeys[i] : i \in 1..Len(EquipmentKeys)},
                 name \in GearNames}

\* The section of the fixture's kobold with that inventory and equipment.
CreatureSection(base_hit_points, inventory_items, equipment_argd) ==
    [internal_name |-> "Kobold_Trysk", title |-> "kobold",
     description_dead |-> "This kobold is dead.",
     character_name |-> "Trysk", character_class |-> "Thief",
     base_hit_points |-> base_hit_points, base_mana_points |-> 0, magic_key_stat |-> "",
     scores |-> ScoresWith(<< >>),
     inventory_items |-> inventory_items, equipment_argd |-> equipment_argd]

InitCreatureBuild ==
    /\ \E names \in {GearNames} \cup {GearNames \ {name} : name \in GearNames},
          inventory_items \in InventoryExpressions, equipment_argd \in EquipmentArgds :
           /\ config = [items |-> ItemsConfig(names),
                        creatures |-> <<CreatureSection(MaxBaseHitPoints, inventory_items,
                                                        equipment_argd)>>]
           /\ items_state = Items_State(ItemsConfig(names)).self
    /\ creatures_state = NotBuilt
    /\ doors_state = NotBuilt
    /\ rooms_state = NotBuilt
    /\ character = NoCharacter
    /\ last = Call("Items_State", "", NoItem, 0, 0, "none")
    /\ NoGame

\* creatures_state = Creatures_State(items_state, **creatures_ini.sections)
BuildCreatures ==
    /\ last.op = "Items_State"
    /\ LET r == Creatures_State(items_state, config.creatures)
       IN /\ creatures_state' = r.self
          /\ last' = Call("Creatures_State", "", NoItem, 0, 0, r.exc)
    /\ UNCHANGED <<character, dungeonVars, items_state, game_state>>

NextCreatureBuild == BuildCreatures

SpecCreatureBuild == InitCreatureBuild /\ [][NextCreatureBuild]_vars

(***************************************************************************)
(* A room and the creature in it: the creature picks up and drops items,   *)
(* is converted to a corpse, and is dealt blows until it is dead.          *)
(***************************************************************************)
\* The items the creature picks up and drops.
Loot == {item \in Gear : item.internal_name \in {"Longsword", "Gold_Coin"}}

\* The section of rooms.ini of a room with no door and that creature in it.
RoomSection(creature_here) ==
    [internal_name |-> "Room_1,1", is_entrance |-> TRUE,
     north_door |-> "", east_door |-> "", south_door |-> "", west_door |-> "",
     creature_here |-> creature_here, container_here |-> ""]

InitCreatures ==
    /\ \E base_hit_points \in 1..MaxBaseHitPoints,
          inventory_items \in {<<<<1, "Longsword">>>>,
                               <<<<1, "Longsword">>, <<MaxQty, "Gold_Coin">>>>},
          equipment_argd \in {[key \in {} |-> ""], [key \in {"weapon_equipped"} |-> "Longsword"]} :
           /\ config = [items |-> ItemsConfig(GearNames),
                        creatures |-> <<CreatureSection(base_hit_points, inventory_items,
                                                        equipment_argd)>>,
                        rooms |-> <<RoomSection("Kobold_Trysk")>>]
           /\ items_state = Items_State(config.items).self
           /\ creatures_state = Creatures_State(items_state, config.creatures).self
    /\ doors_state = Doors_State(<< >>).self
    /\ rooms_state = Rooms_State(creatures_state, NoContainers, doors_state, config.rooms).self
    /\ character = NoCharacter
    /\ last = Call("Rooms_State", "", NoItem, 0, NoContainer, "none")
    /\ NoGame

\* creature.pick_up_item(item, qty)
CreaturePickUp ==
    \E name \in DOMAIN creatures_state.contents, item \in Loot, qty \in 1..MaxQty :
        LET r == pick_up_item(creatures_state.contents[name], item, qty)
        IN /\ \A held \in DOMAIN r.self.inventory : r.self.inventory[held][1] <= MaxQty
           /\ creatures_state' = [creatures_state EXCEPT !.contents[name] = r.self]
           /\ last' = Call("pick_up_item", name, item, qty, NoContainer, r.exc)
           /\ UNCHANGED <<character, dungeonVars, items_state, game_state>>

\* creature.drop_item(item)
CreatureDrop ==
    \E name \in DOMAIN creatures_state.contents, item \in Loot :
        LET r == drop_item(creatures_state.contents[name], item, 1)
        IN /\ creatures_state' = [creatures_state EXCEPT !.contents[name] = r.self]
           /\ last' = Call("drop_item", name, item, 1, NoContainer, r.exc)
           /\ UNCHANGED <<character, dungeonVars, items_state, game_state>>

\* corpse = creature.convert_to_corpse()
ConvertToCorpse ==
    \E name \in DOMAIN creatures_state.contents :
        /\ last' = Call("convert_to_corpse", name, NoItem, 0,
                        convert_to_corpse(creatures_state.contents[name]), "none")
        /\ UNCHANGED <<character, dungeonVars, storeVars, game_state>>

\* The creature of the room under the cursor is dealt a blow.
AttackCreature ==
    \E damage_value \in Amounts :
        LET room == cursor(rooms_state)
            r == attack_creature(room, creatures_state.contents[room.creature_here], damage_value)
        IN /\ room.creature_here # ""
           /\ creatures_state' = [creatures_state EXCEPT !.contents[room.creature_here] = r.creature]
           /\ rooms_state' = [rooms_state EXCEPT !.rooms_objs[room.internal_name] = r.room]
           /\ last' = Call("attack", room.creature_here, NoItem, damage_value, NoContainer, "none")
           /\ UNCHANGED <<character, config, doors_state, items_state, game_state>>

NextCreatures == CreaturePickUp \/ CreatureDrop \/ ConvertToCorpse \/ AttackCreature

SpecCreatures == InitCreatures /\ [][NextCreatures]_vars

(***************************************************************************)
(* The constructors of Character and Creature, given a class, the base hit *)
(* points, the base mana points, the magic key stat ("": not given) and    *)
(* the six ability scores, one of which takes any value.                   *)
(***************************************************************************)
\* The arguments: the hit point arguments vary with the constitution, the
\* mana arguments with one of the three scores a magic key stat can name.
ConstructorArgs ==
    {[character_class |-> c, base_hit_points |-> b, base_mana_points |-> 0,
      magic_key_stat |-> "", scores |-> ScoresWith([x \in {"constitution"} |-> s])] :
         c \in Classes, b \in 0..MaxBaseHitPoints, s \in Scores}
    \cup
    {[character_class |-> c, base_hit_points |-> 0, base_mana_points |-> bm,
      magic_key_stat |-> k, scores |-> ScoresWith([x \in {stat} |-> s])] :
         c \in Classes, bm \in 0..MaxBaseManaPoints, k \in MagicKeyStats \cup {""},
         stat \in MagicKeyStats, s \in Scores}

\* The section of creatures.ini that hands those arguments to Creature.
SectionWith(args) ==
    [CreatureSection(args.base_hit_points, <<<<1, "Longsword">>>>, [key \in {} |-> ""])
        EXCEPT !.character_class = args.character_class,
               !.base_mana_points = args.base_mana_points,
               !.magic_key_stat = args.magic_key_stat,
               !.scores = args.scores]

InitConstruct ==
    /\ config \in ConstructorArgs
    /\ character = NoCharacter
    /\ items_state = Items_State(ItemsConfig(GearNames)).self
    /\ creatures_state = NotBuilt
    /\ doors_state = NotBuilt
    /\ rooms_state = NotBuilt
    /\ last = Call("Items_State", "", NoItem, 0, 0, "none")
    /\ NoGame

\* character = Character(name, class, base_hit_points, base_mana_points,
\*                       magic_key_stat, **scores)
ConstructCharacter ==
    /\ character = NoCharacter
    /\ last.op # "Character"
    /\ LET made == Character("Lidda", config.character_class, config.base_hit_points,
                             config.base_mana_points, config.magic_key_stat, config.scores)
       IN /\ character' = IF made.exc = "none" THEN made.self ELSE NoCharacter
          /\ last' = Call("Character", "Lidda", NoItem, 0, 0, made.exc)
    /\ UNCHANGED <<dungeonVars, storeVars, game_state>>

\* creatures_state = Creatures_State(items_state, **{'Kobold_Trysk': section})
ConstructCreature ==
    /\ creatures_state = NotBuilt
    /\ last.op # "Creatures_State"
    /\ LET r == Creatures_State(items_state, <<SectionWith(config)>>)
       IN /\ creatures_state' = r.self
          /\ last' = Call("Creatures_State", "Kobold_Trysk", NoItem, 0, 0, r.exc)
    /\ UNCHANGED <<character, dungeonVars, items_state, game_state>>

NextConstruct == ConstructCharacter \/ ConstructCreature

SpecConstruct == InitConstruct /\ [][NextConstruct]_vars

(***************************************************************************)
(* The modifiers of the ability scores of a Character constructed with one *)
(* of its six scores taking any value.                                     *)
(***************************************************************************)
Abilities == {"strength", "dexterity", "constitution", "intelligence", "wisdom", "charisma"}

InitStatMod ==
    /\ \E c \in Classes, ability \in Abilities, s \in Scores :
           character = Character("Lidda", c, 0, 0, "", ScoresWith([x \in {ability} |-> s])).self
    /\ last = Call("__init__", "", NoItem, 0, 0, "none")
    /\ NoDungeon /\ NoGame

\* character.<ability>_mod
StatMod ==
    \E ability \in Abilities :
        /\ last' = Call("stat_mod", ability, NoItem, character.ability_scores[ability],
                        stat_mod(character.ability_scores[ability]), "none")
        /\ UNCHANGED <<character, dungeonVars, storeVars, game_state>>

NextStatMod == StatMod

SpecStatMod == InitStatMod /\ [][NextStatMod]_vars

(***************************************************************************)
(* A Character constructed with no ability scores given: roll_stats rolls  *)
(* them.                                                                   *)
(***************************************************************************)
\* The faces the dice show: the lowest and the highest of random.randint(1, 6).
DieFaces == {1, 6}

\* What a roll of four dice can add to results_list.
DiceSums == {three_rolls_sum(four_rolls) : four_rolls \in [1..4 -> DieFaces]}

InitRoll ==
    /\ \E c \in Classes : config = [character_class |-> c]
    /\ character = NoCharacter
    /\ doors_state = NotBuilt
    /\ rooms_state = NotBuilt
    /\ items_state = NotBuilt
    /\ creatures_state = NotBuilt
    /\ last = Call("Ability_Scores", "", NoItem, << >>, 0, "none")
    /\ NoGame

\* Character(name, class): _set_up_ability_scores calls roll_stats, which
\* rolls the dice six times.
RollStats ==
    \E results_list \in [1..6 -> DiceSums] :
        LET made == Character("Lidda", config.character_class, 0, 0, "",
                              roll_stats(config.character_class, results_list))
        IN /\ character = NoCharacter
           /\ character' = made.self
           /\ last' = Call("roll_stats", config.character_class, NoItem, results_list, 0, made.exc)
           /\ UNCHANGED <<dungeonVars, storeVars, game_state>>

NextRoll == RollStats

SpecRoll == InitRoll /\ [][NextRoll]_vars

(***************************************************************************)
(* Properties                                                              *)
(***************************************************************************)
Max(a, b) == IF a >= b THEN a ELSE b

Min(a, b) == IF a <= b THEN a ELSE b

\* C1: take_damage(d) on a Character with current hit points h >= 0 and d >= 0
\* leaves current hit points at max(0, h - d), returns h minus the new current
\* hit points, and leaves the maximum hit points unchanged.
C1_TakeDamageClamps ==
    [][(last'.op = "take_damage" /\ character.current_hit_points >= 0 /\ last'.arg >= 0)
        => /\ character'.current_hit_points
                = Max(0, character.current_hit_points - last'.arg)
           /\ last'.ret = character.current_hit_points - character'.current_hit_points
           /\ character'.hit_point_maximum = character.hit_point_maximum]_vars

\* A take_damage call that asked for more than was left: it removed less than
\* the amount asked and left the hit points at 0.
C1_Witness ==
    /\ last.op = "take_damage"
    /\ last.ret > 0
    /\ last.ret < last.arg
    /\ character.current_hit_points = 0

\* C2: heal_damage(a) on a Character with 0 <= h <= m and a >= 0 leaves current
\* hit points at min(m, h + a) and returns the new current hit points minus h.
C2_HealDamageClamps ==
    [][(/\ last'.op = "heal_damage"
        /\ 0 <= character.current_hit_points
        /\ character.current_hit_points <= character.hit_point_maximum
        /\ last'.arg >= 0)
        => /\ character'.current_hit_points
                = Min(character.hit_point_maximum, character.current_hit_points + last'.arg)
           /\ last'.ret = character'.current_hit_points - character.current_hit_points]_vars

\* A heal_damage call clamped at the maximum: it restored less than asked.
C2_Witness ==
    /\ last.op = "heal_damage"
    /\ last.ret > 0
    /\ last.ret < last.arg
    /\ character.current_hit_points = character.hit_point_maximum
    /\ character.hit_point_maximum > 0

\* C3: spend_mana(a) returns 0 and changes neither current nor maximum mana
\* points when a exceeds the current mana points; otherwise current mana points
\* decrease by exactly a and a is returned.
C3_SpendMana ==
    [][last'.op = "spend_mana"
        => IF last'.arg > character.current_mana_points
           THEN /\ last'.ret = 0
                /\ character'.current_mana_points = character.current_mana_points
                /\ character'.mana_point_maximum = character.mana_point_maximum
           ELSE /\ last'.ret = last'.arg
                /\ character'.current_mana_points
                     = character.current_mana_points - last'.arg]_vars

\* A spend_mana call that spent all the mana that was left.
C3_Witness ==
    /\ last.op = "spend_mana"
    /\ last.ret > 0
    /\ last.ret = last.arg
    /\ character.current_mana_points = 0
    /\ character.mana_point_maximum > 0

\* C4: in every state reachable from construction by take_damage, heal_damage,
\* spend_mana and regain_mana with non-negative amounts,
\* 0 <= current hit points <= maximum hit points and
\* 0 <= current mana points <= maximum mana points.
C4_PointsInRange ==
    /\ 0 <= character.current_hit_points
    /\ character.current_hit_points <= character.hit_point_maximum
    /\ 0 <= character.current_mana_points
    /\ character.current_mana_points <= character.mana_point_maximum

\* C5: in every state reachable from construction by take_damage and
\* heal_damage exactly one of is_alive and is_dead is true, is_alive iff the
\* current hit points are positive and is_dead iff they are zero.
C5_AliveXorDead ==
    /\ is_alive(character) # is_dead(character)
    /\ is_alive(character) <=> character.current_hit_points > 0
    /\ is_dead(character) <=> character.current_hit_points = 0

\* The dicts before and after agree on every key but name.
SameExcept(before, after, name) ==
    /\ (DOMAIN before) \ {name} = (DOMAIN after) \ {name}
    /\ \A k \in (DOMAIN before) \ {name} : after[k] = before[k]

\* C6: add_one(name, item) on a multi-quantity store: if name is absent the
\* store afterwards holds (1, item) under name; if name is present with
\* quantity n it afterwards holds quantity n + 1 with the same item; every
\* other entry is unchanged.
C6_AddOne ==
    [][last'.op = "add_one"
        => LET before == character.inventory
               after == character'.inventory
               name == last'.name
           IN  /\ last'.exc = "none"
               /\ name \in DOMAIN after
               /\ IF name \notin DOMAIN before
                  THEN after[name] = <<1, last'.item>>
                  ELSE after[name] = <<before[name][1] + 1, before[name][2]>>
               /\ SameExcept(before, after, name)]_vars

\* An add_one call on a name already present, passing another Item object of
\* that name than the stored one, with a second entry in the store.
C6_Witness ==
    /\ last.op = "add_one"
    /\ last.name \in DOMAIN character.inventory
    /\ character.inventory[last.name][1] >= 2
    /\ character.inventory[last.name][2] # last.item
    /\ DOMAIN character.inventory # {last.name}

RECURSIVE AddTimes(_, _, _, _)
\* The store after k add_one(name, item) calls in a row.
AddTimes(contents, name, item, k) ==
    IF k = 0 THEN Returned(contents)
    ELSE LET r == add_one(contents, name, item)
         IN  IF r.exc # "none" THEN r ELSE AddTimes(r.contents, name, item, k - 1)

RECURSIVE RemoveTimes(_, _, _)
\* The store after k remove_one(name) calls in a row.
RemoveTimes(contents, name, k) ==
    IF k = 0 THEN Returned(contents)
    ELSE LET r == remove_one(contents, name)
         IN  IF r.exc # "none" THEN r ELSE RemoveTimes(r.contents, name, k - 1)

\* C7: remove_one(name) leaves quantity n - 1 when the quantity n exceeds 1,
\* removes the entry when the quantity is 1, and fails with KeyError, leaving
\* the store unchanged, when name is absent; so k add_one calls followed by k
\* remove_one calls on an absent name restore the store and the (k+1)-th
\* remove_one fails.
C7_RemoveOne ==
    /\ [][last'.op = "remove_one"
            => LET before == character.inventory
                   after == character'.inventory
                   name == last'.name
               IN  IF name \notin DOMAIN before
                   THEN last'.exc = "KeyError" /\ after = before
                   ELSE /\ last'.exc = "none"
                        /\ SameExcept(before, after, name)
                        /\ before[name][1] > 1
                             => /\ name \in DOMAIN after
                                /\ after[name] = <<before[name][1] - 1, before[name][2]>>
                        /\ before[name][1] = 1 => name \notin DOMAIN after]_vars
    /\ [](\A item \in Items, k \in 1..MaxRepeat :
            item.internal_name \notin DOMAIN character.inventory
                => LET added == AddTimes(character.inventory, item.internal_name, item, k)
                       removed == RemoveTimes(added.contents, item.internal_name, k)
                   IN  /\ added.exc = "none"
                       /\ added.contents[item.internal_name][1] = k
                       /\ removed.exc = "none"
                       /\ removed.contents = character.inventory
                       /\ remove_one(removed.contents, item.internal_name).exc = "KeyError")

\* A remove_one call that removed the last one of an item, leaving another
\* item in the store.
C7_Witness ==
    /\ last.op = "remove_one"
    /\ last.exc = "none"
    /\ last.name \notin DOMAIN character.inventory
    /\ character.inventory # EmptyDict

\* C8: in every state of a Character's inventory reachable by add_one,
\* remove_one, pick_up_item(item, q) and drop_item(item, q) with any q >= 0,
\* every stored quantity is a positive integer.
C8_QuantitiesPositive ==
    \A k \in DOMAIN character.inventory : character.inventory[k][1] > 0

\* C9: drop_item asked to drop more than the quantity held fails with an
\* internal-consistency error.
C9_DropTooManyFails ==
    [][(/\ last'.op = "drop_item"
        /\ last'.name \in DOMAIN character.inventory
        /\ character.inventory[last'.name][1] >= 1
        /\ last'.arg > character.inventory[last'.name][1])
        => last'.exc = "Internal_Exception"]_vars

\* C10: drop_item(item, q) for an item not held in any quantity fails with
\* KeyError, for every q, and leaves the inventory unchanged.
C10_DropAbsentFails ==
    [][(last'.op = "drop_item" /\ last'.name \notin DOMAIN character.inventory)
        => /\ last'.exc = "KeyError"
           /\ character'.inventory = character.inventory]_vars

\* A drop_item call for several of an item that is not held, while another
\* item is, failed with KeyError.
C10_Witness ==
    /\ last.op = "drop_item"
    /\ last.exc = "KeyError"
    /\ last.arg > 1
    /\ last.name \notin DOMAIN character.inventory
    /\ character.inventory # EmptyDict

\* C11: pick_up_item(item, q) for any q >= 1 leaves the held quantity of that
\* item at the previously held quantity (0 if absent) plus q and leaves every
\* other inventory entry unchanged.
C11_PickUpAdds ==
    [][(last'.op = "pick_up_item" /\ last'.arg >= 1)
        => LET before == character.inventory
               after == character'.inventory
               name == last'.name
               held == IF name \in DOMAIN before THEN before[name][1] ELSE 0
           IN  /\ last'.exc = "none"
               /\ name \in DOMAIN after
               /\ after[name][1] = held + last'.arg
               /\ after[name][2].internal_name = name
               /\ SameExcept(before, after, name)]_vars

\* A pick_up_item call for several of an item already held, beside another
\* entry: more is held afterwards than was picked up.
C11_Witness ==
    /\ last.op = "pick_up_item"
    /\ last.exc = "none"
    /\ last.arg >= 2
    /\ last.name \in DOMAIN character.inventory
    /\ character.inventory[last.name][1] > last.arg
    /\ DOMAIN character.inventory # {last.name}

\* C12: drop_item(item, q) with 1 <= q <= held quantity h leaves the held
\* quantity at h - q, removing the entry when q = h; so pick_up_item(item, q)
\* followed by drop_item(item, q), on an item that is absent or held in a
\* positive quantity, restores the inventory.
C12_DropSubtracts ==
    /\ [][(/\ last'.op = "drop_item"
            /\ last'.name \in DOMAIN character.inventory
            /\ 1 <= last'.arg
            /\ last'.arg <= character.inventory[last'.name][1])
            => LET before == character.inventory
                   after == character'.inventory
                   name == last'.name
               IN  /\ last'.exc = "none"
                   /\ SameExcept(before, after, name)
                   /\ IF last'.arg = before[name][1]
                      THEN name \notin DOMAIN after
                      ELSE /\ name \in DOMAIN after
                           /\ after[name][1] = before[name][1] - last'.arg]_vars
    /\ [](\A item \in Items, q \in 1..MaxQty :
            (\/ item.internal_name \notin DOMAIN character.inventory
             \/ /\ item.internal_name \in DOMAIN character.inventory
                /\ character.inventory[item.internal_name][1] >= 1
                /\ character.inventory[item.internal_name][2] = item)
                => LET picked == pick_up_item(character, item, q)
                       dropped == drop_item(picked.self, item, q)
                   IN  /\ picked.exc = "none"
                       /\ dropped.exc = "none"
                       /\ dropped.self = character)

\* A drop_item call for several, but not all, of an item held, beside another
\* entry.
C12_Witness ==
    /\ last.op = "drop_item"
    /\ last.exc = "none"
    /\ last.arg >= 2
    /\ last.name \in DOMAIN character.inventory
    /\ character.inventory[last.name][1] >= 1
    /\ DOMAIN character.inventory # {last.name}

\* The flags of a move call that are set.
FlagsSet(flags) == {d \in DOMAIN flags : flags[d]}

\* The door attribute and the exit key that go with a flag.
DoorAttrOf(d) == [north |-> "north_door", west |-> "west_door",
                  south |-> "south_door", east |-> "east_door"][d]

ExitKeyOf(d) == [north |-> "NORTH", west |-> "WEST", south |-> "SOUTH", east |-> "EAST"][d]

\* The call is a move with exactly one flag set, made with the cursor on a room.
MoveOneWay(call, store) ==
    /\ call.op = "move"
    /\ Cardinality(FlagsSet(call.arg)) = 1
    /\ store.room_cursor \in DOMAIN store.rooms_objs

\* The door of the cursor's room in the direction of the one flag set.
DoorAhead(call, store) ==
    store.rooms_objs[store.room_cursor][DoorAttrOf(CHOOSE d \in FlagsSet(call.arg) : TRUE)]

\* C13: move with exactly one direction flag set, when the current room has a
\* door in that direction and that door is not locked, sets the cursor to the
\* door's linked room name that differs from the current room's internal name.
C13_MoveAdvances ==
    [][(/\ MoveOneWay(last', rooms_state)
        /\ DoorAhead(last', rooms_state) # NoDoor
        /\ ~DoorAhead(last', rooms_state).is_locked)
       => LET door == DoorAhead(last', rooms_state)
          IN /\ last'.exc = "none"
             /\ rooms_state'.room_cursor \in
                    door.linked_rooms_internal_names \ {rooms_state.room_cursor}]_vars

\* C14: move with exactly one direction flag set, when the current room has no
\* door in that direction, raises Bad_Command_Exception with command MOVE and
\* the message naming that direction, and leaves the cursor unchanged.
C14_MoveNoDoorFails ==
    [][(/\ MoveOneWay(last', rooms_state)
        /\ DoorAhead(last', rooms_state) = NoDoor)
       => /\ last'.exc = "Bad_Command_Exception"
          /\ last'.ret = <<"MOVE", no_exit_message(ExitKeyOf(CHOOSE d \in FlagsSet(last'.arg) : TRUE))>>
          /\ rooms_state' = rooms_state]_vars

\* A move west that failed for want of a door, in a room that has other doors.
C14_Witness ==
    /\ last.op = "move"
    /\ last.exc = "Bad_Command_Exception"
    /\ FlagsSet(last.arg) = {"west"}
    /\ last.ret[2] = "This room has no <WEST> exit."
    /\ rooms_state.room_cursor = last.name
    /\ cursor(rooms_state).north_door # NoDoor

\* C15: move with exactly one direction flag set, when the door in that
\* direction is locked, raises Internal_Exception and leaves the cursor
\* unchanged; and whenever the cursor changes, it does so in a move through a
\* door of the room left that is not locked and that links the room entered.
C15_MoveLockedFails ==
    /\ [][(/\ MoveOneWay(last', rooms_state)
           /\ DoorAhead(last', rooms_state) # NoDoor
           /\ DoorAhead(last', rooms_state).is_locked)
          => /\ last'.exc = "Internal_Exception"
             /\ rooms_state' = rooms_state]_vars
    /\ [][(/\ rooms_state.built /\ rooms_state'.built
           /\ rooms_state'.room_cursor # rooms_state.room_cursor)
          => /\ MoveOneWay(last', rooms_state)
             /\ DoorAhead(last', rooms_state) # NoDoor
             /\ ~DoorAhead(last', rooms_state).is_locked
             /\ rooms_state'.room_cursor \in
                    DoorAhead(last', rooms_state).linked_rooms_internal_names]_vars

\* A move that failed at a locked door, made from a room entered by an earlier
\* move.
C15_Witness ==
    /\ last.op = "move"
    /\ last.exc = "Internal_Exception"
    /\ Cardinality(FlagsSet(last.arg)) = 1
    /\ rooms_state.room_cursor = last.name
    /\ ~cursor(rooms_state).is_entrance
    /\ DoorAhead(last, rooms_state) # NoDoor
    /\ DoorAhead(last, rooms_state).is_locked

\* The rooms of the configuration that carry is_entrance=true.
Entrances == {config.rooms[i].internal_name : i \in {j \in DOMAIN config.rooms : config.rooms[j].is_entrance}}

\* The configuration has one entrance room and each of its doors joins two
\* rooms it configures.
OneEntranceAllRooms ==
    /\ Cardinality(Entrances) = 1
    /\ \A name \in DOMAIN config.doors :
           {name[1], name[2]} \subseteq {config.rooms[i].internal_name : i \in DOMAIN config.rooms}

\* C16: after building the room graph from a configuration with one entrance
\* room in which every door joins two configured rooms, the cursor names the
\* entrance room; in every state reached by move calls the cursor names a room
\* held by the store; and the cursor changes only in a move that raised nothing.
C16_CursorInStore ==
    /\ []((OneEntranceAllRooms /\ rooms_state.built)
          => /\ rooms_state.room_cursor \in DOMAIN rooms_state.rooms_objs
             /\ cursor(rooms_state).internal_name = rooms_state.room_cursor
             /\ last.op = "Rooms_State" => rooms_state.room_cursor \in Entrances)
    /\ [][(/\ OneEntranceAllRooms
           /\ rooms_state.built /\ rooms_state'.built
           /\ rooms_state'.room_cursor # rooms_state.room_cursor)
          => last'.op = "move" /\ last'.exc = "none"]_vars

\* A graph built from such a configuration in which a move has taken the
\* cursor off the entrance room.
C16_Witness ==
    /\ OneEntranceAllRooms
    /\ rooms_state.built
    /\ last.op = "move"
    /\ last.exc = "none"
    /\ last.name \in Entrances
    /\ rooms_state.room_cursor \notin Entrances
    /\ rooms_state.room_cursor \in DOMAIN rooms_state.rooms_objs

\* C20: every door built from configuration is stored in the door store under
\* the pair of its two room names sorted, the exit marker second, so that the
\* lookup Room.__init__ makes under that pair finds it and the room graph is
\* built, whatever order the two names have in the door's internal name.
C20_DoorsFiledCanonically ==
    /\ [](doors_state.built
          => \A name \in DOMAIN config.doors :
                 LET pair == sorted_pair(name[1], name[2])
                 IN /\ Doors_State_contains(doors_state, pair[1], pair[2])
                    /\ Doors_State_get(doors_state, pair[1], pair[2]).value.internal_name = name)
    /\ [](last.op = "Rooms_State" => last.exc = "none")

\* The step is an assignment of a non-empty name to character_name.
GivesName == last'.op = "character_name" /\ last'.name # ""

\* The step is an assignment of one of the four classes to character_class.
GivesClass == last'.op = "character_class" /\ last'.name \in Classes

\* The session holds exactly one Character, built with that name and class.
OneCharacter(session, character_obj, name_str, class_str) ==
    /\ character_obj # NoCharacter
    /\ session.characters_made = 1
    /\ character_obj.character_name = name_str
    /\ character_obj.character_class = class_str

\* C17: on a new Game_State, whichever of a (non-empty) character name and a
\* valid character class is assigned first, no Character exists after that
\* assignment, and after the assignment of the other exactly one Character
\* exists, built with that name and that class; neither assignment raises.
C17_CharacterOnceBothSet ==
    /\ [][(game_state = NoGameState /\ character = NoCharacter /\ (GivesName \/ GivesClass))
          => /\ last'.exc = "none"
             /\ character' = NoCharacter
             /\ game_state'.characters_made = 0]_vars
    /\ [][(/\ character = NoCharacter /\ game_state.characters_made = 0
           /\ game_state.character_name # "" /\ game_state.character_class = ""
           /\ GivesClass)
          => /\ last'.exc = "none"
             /\ OneCharacter(game_state', character', game_state.character_name, last'.name)]_vars
    /\ [][(/\ character = NoCharacter /\ game_state.characters_made = 0
           /\ game_state.character_name = "" /\ game_state.character_class \in Classes
           /\ GivesName)
          => /\ last'.exc = "none"
             /\ OneCharacter(game_state', character', last'.name, game_state.character_class)]_vars

\* A Mage named Mialee built by the assignment of the name, the class having
\* been assigned before.
C17_Witness ==
    /\ last.op = "character_name"
    /\ last.name = "Mialee"
    /\ last.exc = "none"
    /\ game_state.character_class = "Mage"
    /\ OneCharacter(game_state, character, "Mialee", "Mage")
    /\ character.ability_scores.intelligence = MaxScore
    /\ character.ability_scores.charisma = MinScore

\* C18: once the Game_State holds a Character, assignments to character_name
\* and character_class leave it the same object with the same name, class,
\* ability scores, hit points and inventory, also after it has taken damage
\* and picked up an item.
C18_CharacterKept ==
    /\ [][(character # NoCharacter /\ last'.op \in {"character_name", "character_class"})
          => /\ character' = character
             /\ game_state'.characters_made = game_state.characters_made]_vars
    /\ [](character # NoCharacter
          => \A damage_value \in Amounts, item \in Items,
                name_str \in NameInputs, class_str \in ClassInputs :
                 LET played == pick_up_item(take_damage(character, damage_value).self, item, 1).self
                     named == set_character_name(game_state, played, name_str, NotRolled)
                     classed == set_character_class(named.self, named.character, class_str, NotRolled)
                 IN /\ named.exc = "none" /\ classed.exc = "none"
                    /\ classed.character = played
                    /\ classed.self.characters_made = game_state.characters_made)

\* A session whose Character kept its name and class after another name and
\* another class were assigned.
C18_Witness ==
    /\ character # NoCharacter
    /\ game_state.characters_made = 1
    /\ last.op = "character_class"
    /\ game_state.character_name \notin {"", character.character_name}
    /\ game_state.character_class \in Classes \ {character.character_class}

\* The four equip methods of the Character.
EquipOps == {"equip_armor", "equip_shield", "equip_weapon", "equip_wand"}

\* C19: each of equip_armor, equip_shield, equip_weapon and equip_wand, called
\* with an item the character's inventory does not contain, raises
\* Internal_Exception and leaves all four equipment slots unchanged.
C19_EquipNotHeldFails ==
    [][(last'.op \in EquipOps /\ ~contains(character.inventory, last'.name))
       => /\ last'.exc = "Internal_Exception"
          /\ \A equipment_slot \in EquipmentSlots :
                 character'.equipment[equipment_slot] = character.equipment[equipment_slot]
          /\ character' = character]_vars

\* An equip_weapon call with a weapon that had been dropped, refused while
\* armor and a weapon are equipped.
C19_Witness ==
    /\ last.op = "equip_weapon"
    /\ last.item.item_type = "weapon"
    /\ last.exc = "Internal_Exception"
    /\ ~contains(character.inventory, last.name)
    /\ character.equipment.armor # NoItem
    /\ character.equipment.weapon = last.item

\* C21: for a door whose internal name joins rooms A and B,
\* other_room_internal_name(A) returns B and other_room_internal_name(B)
\* returns A, so that applying it twice returns the starting room, and for a
\* name that is neither A nor B it raises Internal_Exception.
C21_OtherRoom ==
    /\ [][last'.op = "other_room_internal_name"
          => LET A == last'.arg[1]
                 B == last'.arg[2]
             IN /\ last'.name = A => last'.exc = "none" /\ last'.ret = B
                /\ last'.name = B => last'.exc = "none" /\ last'.ret = A
                /\ last'.name \notin {A, B} => last'.exc = "Internal_Exception"]_vars
    /\ [](\A key \in DOMAIN doors_state.contents :
             \A room_internal_name \in {key[1], key[2]} :
                 LET door == doors_state.contents[key]
                     there == other_room_internal_name(door, room_internal_name)
                     back == other_room_internal_name(door, there.value)
                 IN /\ there.exc = "none" /\ back.exc = "none"
                    /\ there.value # room_internal_name
                    /\ back.value = room_internal_name)

\* A door whose internal name has the exit marker first, asked for the other
\* side of the room it leads out of.
C21_Witness ==
    /\ last.op = "other_room_internal_name"
    /\ last.arg = <<"Exit", "Room_1,2">>
    /\ last.name = "Room_1,2"
    /\ last.ret = "Exit"
    /\ last.exc = "none"

\* The item names a section of creatures.ini refers to: those of its
\* inventory_items and those of its <slot>_equipped values.
NamesReferred(section) ==
    {section.inventory_items[i][2] : i \in 1..Len(section.inventory_items)}
        \cup {section.equipment_argd[key] : key \in DOMAIN section.equipment_argd}

\* C24: building the creature store from a section whose inventory
\* expression or whose <slot>_equipped value names an item the item store
\* lacks raises the internal-consistency error, and no creature store holding
\* that creature comes to be.
C24_AbsentItemFailsBuild ==
    [][(/\ last'.op = "Creatures_State"
        /\ \E name \in NamesReferred(config.creatures[1]) : name \notin DOMAIN config.items)
       => /\ last'.exc = "Internal_Exception"
          /\ creatures_state' = NotBuilt]_vars

\* A build has failed over a <slot>_equipped value naming an absent item, the
\* inventory expression naming only items the store has.
C24_Witness ==
    /\ last.op = "Creatures_State"
    /\ last.exc = "Internal_Exception"
    /\ creatures_state = NotBuilt
    /\ \A i \in 1..Len(config.creatures[1].inventory_items) :
           config.creatures[1].inventory_items[i][2] \in DOMAIN config.items
    /\ \E key \in DOMAIN config.creatures[1].equipment_argd :
           config.creatures[1].equipment_argd[key] \notin DOMAIN config.items

\* C22: convert_to_corpse, whatever the creature holds, returns a corpse
\* container that carries the creature's internal name and the title
\* "<title> corpse" and holds the items of the creature's inventory, each in
\* the quantity the creature holds; the creature's inventory stays as it is.
C22_CorpseHoldsInventory ==
    [][last'.op = "convert_to_corpse"
       => LET creature == creatures_state.contents[last'.name]
              corpse == last'.ret
          IN /\ corpse.container_type = "corpse"
             /\ corpse.internal_name = creature.internal_name
             /\ corpse.title = creature.title \o " corpse"
             /\ DOMAIN corpse.contents = DOMAIN creature.inventory
             /\ \A name \in DOMAIN creature.inventory :
                    /\ corpse.contents[name][1] = creature.inventory[name][1]
                    /\ corpse.contents[name][2].internal_name = name
             /\ creatures_state'.contents[last'.name].inventory = creature.inventory]_vars

\* The kobold's corpse has been made while it held a sword and several coins.
C22_Witness ==
    /\ last.op = "convert_to_corpse"
    /\ last.ret.title = "kobold corpse"
    /\ last.ret.internal_name = "Kobold_Trysk"
    /\ DOMAIN last.ret.contents = {"Longsword", "Gold_Coin"}
    /\ last.ret.contents["Longsword"][1] = 1
    /\ last.ret.contents["Gold_Coin"][1] = MaxQty

FloorHalf(n) == CHOOSE m \in -20..20 : 2 * m <= n /\ n < 2 * m + 2

\* The Characters constructed from the arguments: the one Character.__init__
\* made and the one the creature store holds.
Constructed ==
    (IF character = NoCharacter THEN {} ELSE {character})
        \cup (IF creatures_state = NotBuilt THEN {}
              ELSE {creatures_state.contents[name] : name \in DOMAIN creatures_state.contents})

\* C25: a Character constructed with constitution c has the maximum hit
\* points B + 3 * floor((c - 10) / 2), B being the base hit points argument if
\* one is given, else 40 for a Warrior, 30 for a Priest, 30 for a Thief and 20
\* for a Mage; its current hit points are its maximum hit points.
C25_HitPointsAtConstruction ==
    \A made \in Constructed :
        LET B == IF config.base_hit_points # 0 THEN config.base_hit_points
                 ELSE CASE made.character_class = "Warrior" -> 40
                        [] made.character_class = "Priest" -> 30
                        [] made.character_class = "Thief" -> 30
                        [] made.character_class = "Mage" -> 20
        IN /\ made.hit_point_maximum = B + 3 * FloorHalf(config.scores.constitution - 10)
           /\ made.current_hit_points = made.hit_point_maximum

\* A Mage has been constructed with no base hit points given and a constitution
\* of 7, whose modifier is -2: it has 14 hit points.
C25_Witness ==
    /\ character # NoCharacter
    /\ character.character_class = "Mage"
    /\ config.base_hit_points = 0
    /\ config.scores.constitution = 7
    /\ character.hit_point_maximum = 14
    /\ character.current_hit_points = 14

\* The bonus mana points the modifier of the magic key stat earns.
ClaimedBonus(m) == CASE m <= 0 -> 0 [] m = 1 -> 1 [] m = 2 -> 4 [] m = 3 -> 9 [] m = 4 -> 16

\* C26: a Priest or a Mage constructed with a magic key stat whose modifier m
\* is within -4..4 has maximum and current mana points B + bonus(m): B is the
\* base mana points argument if given, else 16 for a Priest and 19 for a Mage;
\* the key stat is the one given, else wisdom for a Priest and intelligence for
\* a Mage; bonus is 0 up to m = 0, then 1, 4, 9, 16.
C26_CasterManaAtConstruction ==
    \A made \in Constructed :
        made.character_class \in {"Priest", "Mage"}
        => LET key == IF config.magic_key_stat # "" THEN config.magic_key_stat
                      ELSE IF made.character_class = "Priest" THEN "wisdom" ELSE "intelligence"
               m == FloorHalf(config.scores[key] - 10)
               B == IF config.base_mana_points # 0 THEN config.base_mana_points
                    ELSE IF made.character_class = "Priest" THEN 16 ELSE 19
           IN m \in -4..4
              => /\ made.mana_point_maximum = B + ClaimedBonus(m)
                 /\ made.current_mana_points = B + ClaimedBonus(m)
                 /\ made.magic_key_stat = key

\* A Priest has been constructed with base mana points given and charisma,
\* of modifier 3, as the key stat.
C26_Witness ==
    /\ character # NoCharacter
    /\ character.character_class = "Priest"
    /\ config.base_mana_points = MaxBaseManaPoints
    /\ config.magic_key_stat = "charisma"
    /\ config.scores.charisma = 16
    /\ character.mana_point_maximum = MaxBaseManaPoints + 9

\* C27 as stated: a Warrior or a Thief, Character or Creature, has maximum and
\* current mana points 0 after construction, whatever base mana points and
\* magic key stat are given.
C27_NonCastersNoMana ==
    \A made \in Constructed :
        made.character_class \in {"Warrior", "Thief"}
        => /\ made.mana_point_maximum = 0
           /\ made.current_mana_points = 0

\* C27 amended: a Warrior or a Thief, Character or Creature, has maximum and
\* current mana points 0 after construction unless a magic key stat and base
\* mana points other than 0 are both given; given both, with the modifier m of
\* that stat within -4..4, it has the base mana points given plus bonus(m).
C27_NonCasterManaOnlyIfGiven ==
    \A made \in Constructed :
        made.character_class \in {"Warrior", "Thief"}
        => LET given == config.magic_key_stat # "" /\ config.base_mana_points # 0
               m == FloorHalf(config.scores[config.magic_key_stat] - 10)
               mana == IF given THEN config.base_mana_points + ClaimedBonus(m) ELSE 0
           IN (given => m \in -4..4)
              => /\ made.mana_point_maximum = mana
                 /\ made.current_mana_points = mana

\* The creature store holds a Thief built from a section that gives base mana
\* points and charisma, of modifier 3, as its magic key stat.
C27_Witness ==
    /\ creatures_state # NotBuilt
    /\ creatures_state.contents["Kobold_Trysk"].character_class = "Thief"
    /\ config.magic_key_stat = "charisma"
    /\ config.base_mana_points = MaxBaseManaPoints
    /\ config.scores.charisma = 16
    /\ creatures_state.contents["Kobold_Trysk"].mana_point_maximum = MaxBaseManaPoints + 9

\* C28: the modifier of an ability score s of 3..18 is floor((s - 10) / 2),
\* the greatest integer m with 2 * m <= s - 10: 0 for 10 and 11, 4 for 18, -1
\* for 8, -4 for 3.
C28_StatModIsFloor ==
    (last.op = "stat_mod" /\ last.arg \in 3..18)
    => /\ 2 * last.ret <= last.arg - 10
       /\ last.arg - 10 < 2 * last.ret + 2
       /\ last.arg \in {10, 11} => last.ret = 0
       /\ last.arg = 18 => last.ret = 4
       /\ last.arg = 8 => last.ret = -1
       /\ last.arg = 3 => last.ret = -4

\* The modifier of an odd score below 10 has been asked for: 7 gives -2.
C28_Witness ==
    /\ last.op = "stat_mod"
    /\ last.arg = 7
    /\ last.ret = -2

\* C29: roll_stats, for every class and whatever the dice show, sets all six
\* ability scores; each is one of the six sums rolled, a sum of the three
\* highest of four dice and so within 3..18, as often as it was rolled; along
\* the priority order of the class the scores do not increase.  A Warrior's
\* strength is the highest of the sums and its wisdom the lowest.
C29_RolledScoresByPriority ==
    last.op = "roll_stats"
    => LET scores == character.ability_scores
           order == weightings[character.character_class]
           results_list == last.arg
       IN /\ DOMAIN scores = {"strength", "dexterity", "constitution",
                              "intelligence", "wisdom", "charisma"}
          /\ \A ability \in DOMAIN scores : scores[ability] \in 3..18
          /\ \A v \in 3..18 :
                 Cardinality({ability \in DOMAIN scores : scores[ability] = v})
                     = Cardinality({i \in 1..6 : results_list[i] = v})
          /\ \A i \in 1..5 : scores[order[i]] >= scores[order[i + 1]]
          /\ character.character_class = "Warrior"
             => \A i \in 1..6 : /\ scores.strength >= results_list[i]
                                /\ scores.wisdom <= results_list[i]

\* A Warrior's scores have been rolled, the first sum the lowest of six that
\* are not all equal, the last one the highest.
C29_Witness ==
    /\ last.op = "roll_stats"
    /\ character.character_class = "Warrior"
    /\ last.arg[1] = 3
    /\ last.arg[6] = 18
    /\ character.ability_scores.strength = 18
    /\ character.ability_scores.wisdom = 3

\* C30: with a weapon or a wand equipped, or both, the ability whose modifier
\* enters the attack and damage rolls is strength for a Warrior and a Priest,
\* dexterity for a Thief, intelligence for a Mage with a wand equipped and
\* strength for a Mage with a weapon and no wand.
C30_AttackStat ==
    (character.equipment.weapon # NoItem \/ character.equipment.wand # NoItem)
    => attack_or_damage_stat_dependency(character)
           = CASE character.character_class \in {"Warrior", "Priest"} -> "strength"
               [] character.character_class = "Thief" -> "dexterity"
               [] character.character_class = "Mage" /\ character.equipment.wand # NoItem
                      -> "intelligence"
               [] character.character_class = "Mage" /\ character.equipment.wand = NoItem
                      -> "strength"

\* C36: in every state reached from construction by pick_up_item, drop_item,
\* equip_<slot> and unequip_<slot> calls, each item in an equipment slot is in
\* the inventory in a quantity of at least 1.
C36_EquippedIsHeld ==
    \A equipment_slot \in EquipmentSlots :
        character.equipment[equipment_slot] # NoItem
        => LET name == character.equipment[equipment_slot].internal_name
           IN /\ name \in DOMAIN character.inventory
              /\ character.inventory[name][1] >= 1

\* C37: in every state reached by assignments to character_name and
\* character_class, a Game_State that holds a Character has that Character's
\* name as its character_name and that Character's class as its
\* character_class.
C37_SessionNamesCharacter ==
    character # NoCharacter
    => /\ game_state.character_name = character.character_name
       /\ game_state.character_class = character.character_class

\* C40: a move call made with any combination of the four flags, none, one or
\* several set, in any current room, either advances the cursor or raises
\* Internal_Exception or Bad_Command_Exception and nothing else; with more
\* than one flag set it raises Internal_Exception whatever doors the room has;
\* a call that raises leaves the cursor where it is.
C40_MoveFailsOnlyAsDeclared ==
    [][(last'.op = "move" /\ rooms_state.room_cursor # "")
       => /\ last'.exc \in {"none", "Internal_Exception", "Bad_Command_Exception"}
          /\ Cardinality(FlagsSet(last'.arg)) > 1 => last'.exc = "Internal_Exception"
          /\ last'.exc # "none" => rooms_state'.room_cursor = rooms_state.room_cursor]_vars

(***************************************************************************)
(* Container and its factory, for sections without a contents attribute.   *)
(***************************************************************************)
ContainerTypes == {"chest", "corpse"}

\* Container.__init__ of a section with no contents: the attributes of the
\* section and an empty Items_Multi_State.
Container(internal_name, argd) ==
    [internal_name |-> internal_name, title |-> argd.title,
     description |-> argd.description, container_type |-> argd.container_type,
     contents |-> << >>]

\* Container.subclassing_factory: a Chest, a Corpse, or, for any other
\* container_type, the return of a local that was never bound.
Container_subclassing_factory(internal_name, container_dict) ==
    IF container_dict.container_type = "chest"
    THEN [exc |-> "none", container |-> Container(internal_name, container_dict)]
    ELSE IF container_dict.container_type = "corpse"
    THEN [exc |-> "none", container |-> Container(internal_name, container_dict)]
    ELSE [exc |-> "UnboundLocalError", container |-> NoContainer]

(***************************************************************************)
(* The three factories applied to one section, and the item store and the  *)
(* door store built from the sections of the test fixture.                 *)
(***************************************************************************)
\* The variant tags a section is given: those any factory has a class for,
\* those the fixture uses, and some no factory knows.
VariantTags ==
    ItemTypes \cup DoorTypes \cup ContainerTypes
        \cup {"consumable", "iron door", "wooden door", "barrel", ""}

SectionTitles == {"wooden chest", "iron door", "mana potion"}

\* Items_Ini_Config_Text: the item_type and title of each section.
Items_Ini_Config ==
    [name \in {"Short_Sword", "Rapier", "Mace", "Small_Leather_Armor", "Longsword", "Staff",
               "Dagger", "Warhammer", "Studded_Leather", "Shield", "Scale_Mail",
               "Magic_Sword", "Magic_Wand", "Mana_Potion", "Health_Potion", "Gold_Coin"} |->
        CASE name = "Short_Sword" -> [title |-> "short sword", item_type |-> "weapon"]
          [] name = "Rapier" -> [title |-> "rapier", item_type |-> "weapon"]
          [] name = "Mace" -> [title |-> "mace", item_type |-> "weapon"]
          [] name = "Small_Leather_Armor" ->
                 [title |-> "small leather armor", item_type |-> "armor"]
          [] name = "Longsword" -> [title |-> "longsword", item_type |-> "weapon"]
          [] name = "Staff" -> [title |-> "staff", item_type |-> "weapon"]
          [] name = "Dagger" -> [title |-> "dagger", item_type |-> "weapon"]
          [] name = "Warhammer" -> [title |-> "warhammer", item_type |-> "weapon"]
          [] name = "Studded_Leather" ->
                 [title |-> "studded leather armor", item_type |-> "armor"]
          [] name = "Shield" -> [title |-> "shield", item_type |-> "shield"]
          [] name = "Scale_Mail" -> [title |-> "scale mail armor", item_type |-> "armor"]
          [] name = "Magic_Sword" -> [title |-> "magic sword", item_type |-> "weapon"]
          [] name = "Magic_Wand" -> [title |-> "magic wand", item_type |-> "wand"]
          [] name = "Mana_Potion" -> [title |-> "mana potion", item_type |-> "consumable"]
          [] name = "Health_Potion" -> [title |-> "health potion", item_type |-> "consumable"]
          [] name = "Gold_Coin" -> [title |-> "gold coin", item_type |-> "coin"]]

\* Doors_Ini_Config_Text: the title, door_type and is_locked of each section.
Doors_Ini_Config ==
    [name \in {<<"Room_1,1", "Room_1,2">>, <<"Room_1,1", "Room_2,1">>,
               <<"Room_1,2", "Room_2,2">>, <<"Room_2,1", "Room_2,2">>} |->
        CASE name = <<"Room_1,1", "Room_1,2">> ->
                 [title |-> "wooden door", door_type |-> "wooden_door", is_locked |-> FALSE]
          [] name = <<"Room_1,1", "Room_2,1">> ->
                 [title |-> "iron door", door_type |-> "iron door", is_locked |-> TRUE]
          [] name = <<"Room_1,2", "Room_2,2">> ->
                 [title |-> "doorway", door_type |-> "doorway", is_locked |-> FALSE]
          [] name = <<"Room_2,1", "Room_2,2">> ->
                 [title |-> "iron door", door_type |-> "iron door", is_locked |-> TRUE]]

\* One section whose variant tag and title are any of those above; no store
\* is built yet.
InitFactories ==
    /\ \E tag \in VariantTags, title \in SectionTitles :
           config = [tag |-> tag, title |-> title]
    /\ items_state = NotBuilt
    /\ doors_state = NotBuilt
    /\ rooms_state = NotBuilt
    /\ creatures_state = NotBuilt
    /\ character = NoCharacter
    /\ last = Call("", "", NoItem, 0, NoItem, "none")
    /\ NoGame

\* Item.subclassing_factory(internal_name='Entry', item_type=tag, title=title)
ItemFactory ==
    /\ LET r == Item_subclassing_factory("Entry", [title |-> config.title,
                                                   item_type |-> config.tag])
       IN last' = Call("Item.subclassing_factory", config.tag, NoItem, 0, r.item, r.exc)
    /\ UNCHANGED <<character, dungeonVars, storeVars, game_state>>

\* Door.subclassing_factory(internal_name='Room_1,1_x_Room_1,2', door_type=tag, ...)
DoorFactory ==
    /\ LET r == subclassing_factory(<<"Room_1,1", "Room_1,2">>,
                                    [title |-> config.title, door_type |-> config.tag,
                                     is_locked |-> FALSE])
       IN last' = Call("Door.subclassing_factory", config.tag, NoItem, 0, r.door, r.exc)
    /\ UNCHANGED <<character, dungeonVars, storeVars, game_state>>

\* Container.subclassing_factory(items_state, internal_name='Entry',
\* container_type=tag, ...)
ContainerFactory ==
    /\ LET r == Container_subclassing_factory("Entry",
                                              [title |-> config.title, description |-> "",
                                               container_type |-> config.tag])
       IN last' = Call("Container.subclassing_factory", config.tag, NoItem, 0,
                       r.container, r.exc)
    /\ UNCHANGED <<character, dungeonVars, storeVars, game_state>>

\* items_state = Items_State(**items_ini_config.sections) on the fixture
BuildFixtureItems ==
    /\ LET r == Items_State(Items_Ini_Config)
       IN /\ items_state' = r.self
          /\ last' = Call("Items_State", "", NoItem, 0, NoItem, r.exc)
    /\ UNCHANGED <<character, dungeonVars, creatures_state, game_state>>

\* doors_state = Doors_State(**doors_ini_config.sections) on the fixture
BuildFixtureDoors ==
    /\ LET r == Doors_State(Doors_Ini_Config)
       IN /\ doors_state' = r.self
          /\ last' = Call("Doors_State", "", NoItem, 0, NoItem, r.exc)
    /\ UNCHANGED <<character, config, rooms_state, storeVars, game_state>>

NextFactories ==
    ItemFactory \/ DoorFactory \/ ContainerFactory \/ BuildFixtureItems \/ BuildFixtureDoors

SpecFactories == InitFactories /\ [][NextFactories]_vars

\* C33: each of the item, door and container factories, given a variant tag
\* outside the set it recognizes, fails with an internal-consistency error
\* and builds no object.
C33_UnknownTagFails ==
    /\ (last.op = "Item.subclassing_factory" /\ last.name \notin ItemTypes)
       => (last.exc = "Internal_Exception" /\ last.ret = NoItem)
    /\ (last.op = "Door.subclassing_factory" /\ last.name \notin DoorTypes)
       => (last.exc = "Internal_Exception" /\ last.ret = NoDoor)
    /\ (last.op = "Container.subclassing_factory" /\ last.name \notin ContainerTypes)
       => (last.exc = "Internal_Exception" /\ last.ret = NoContainer)

\* C35: building the item store and the door store from the test fixture
\* succeeds: every item_type and door_type of the fixture is accepted, and
\* the door store holds the two locked iron doors, the unlocked wooden door
\* and the open doorway.
C35_FixtureStoresBuild ==
    /\ last.op = "Items_State"
       => /\ last.exc = "none"
          /\ items_state.built
          /\ DOMAIN items_state.contents = DOMAIN Items_Ini_Config
    /\ last.op = "Doors_State"
       => /\ last.exc = "none"
          /\ doors_state.built
          /\ doors_state.contents[<<"Room_1,1", "Room_1,2">>].door_type = "wooden_door"
          /\ ~doors_state.contents[<<"Room_1,1", "Room_1,2">>].is_locked
          /\ doors_state.contents[<<"Room_1,2", "Room_2,2">>].door_type = "doorway"
          /\ \A name \in {<<"Room_1,1", "Room_2,1">>, <<"Room_2,1", "Room_2,2">>} :
                 /\ doors_state.contents[name].door_type = "iron_door"
                 /\ doors_state.contents[name].is_locked

(***************************************************************************)
(* The keyed stores under calls with any key and any item: an Items_State  *)
(* (one item to a key) and a Character's inventory (an Items_Multi_State). *)
(***************************************************************************)
\* State.get: self._contents[item_internal_name]
State_get(self, item_internal_name) ==
    IF item_internal_name \in DOMAIN self.contents
    THEN [value |-> self.contents[item_internal_name], exc |-> "none"]
    ELSE [value |-> NoItem, exc |-> "KeyError"]

\* State.set: self._contents[item_internal_name] = item
State_set(self, item_internal_name, item) ==
    [self |-> [self EXCEPT !.contents = DictSet(self.contents, item_internal_name, item)],
     exc |-> "none"]

\* State.delete: del self._contents[item_internal_name]
State_delete(self, item_internal_name) ==
    IF item_internal_name \in DOMAIN self.contents
    THEN [self |-> [self EXCEPT !.contents = DictDel(self.contents, item_internal_name)],
          exc |-> "none"]
    ELSE [self |-> self, exc |-> "KeyError"]

\* An Items_State built from no section, and a Character with an empty inventory.
InitStores ==
    /\ items_state = Items_State(EmptyDict).self
    /\ character = Character("Lidda", "Warrior", 0, 0, "", ScoresWith(<< >>)).self
    /\ last = Call("__init__", "", NoItem, 0, 0, "none")
    /\ creatures_state = NotBuilt
    /\ config = NoConfig
    /\ doors_state = NotBuilt
    /\ rooms_state = NotBuilt
    /\ NoGame

\* items_state.set(name, item)
StateSet ==
    \E name \in ItemNames, item \in Items :
        LET r == State_set(items_state, name, item)
        IN  /\ items_state' = r.self
            /\ last' = Call("State.set", name, item, 1, 0, r.exc)
            /\ UNCHANGED <<character, dungeonVars, creatures_state, game_state>>

\* items_state.delete(name)
StateDelete ==
    \E name \in ItemNames :
        LET r == State_delete(items_state, name)
        IN  /\ items_state' = r.self
            /\ last' = Call("State.delete", name, NoItem, 1, 0, r.exc)
            /\ UNCHANGED <<character, dungeonVars, creatures_state, game_state>>

\* inventory.set(name, qty, item)
MultiSet ==
    \E name \in ItemNames, qty \in 1..MaxQty, item \in Items :
        LET r == set(character.inventory, name, qty, item)
        IN  /\ character' = [character EXCEPT !.inventory = r.contents]
            /\ last' = Call("set", name, item, qty, 0, r.exc)
            /\ UNCHANGED <<dungeonVars, storeVars, game_state>>

\* inventory.delete(name)
MultiDelete ==
    \E name \in ItemNames :
        LET r == delete(character.inventory, name)
        IN  /\ character' = [character EXCEPT !.inventory = r.contents]
            /\ last' = Call("delete", name, NoItem, 1, 0, r.exc)
            /\ UNCHANGED <<dungeonVars, storeVars, game_state>>

\* inventory.add_one(name, item)
MultiAddOne ==
    \E name \in ItemNames, item \in Items :
        LET r == add_one(character.inventory, name, item)
        IN  /\ WithinQty(r.contents)
            /\ character' = [character EXCEPT !.inventory = r.contents]
            /\ last' = Call("add_one", name, item, 1, 0, r.exc)
            /\ UNCHANGED <<dungeonVars, storeVars, game_state>>

\* inventory.remove_one(name)
MultiRemoveOne ==
    \E name \in ItemNames :
        LET r == remove_one(character.inventory, name)
        IN  /\ character' = [character EXCEPT !.inventory = r.contents]
            /\ last' = Call("remove_one", name, NoItem, 1, 0, r.exc)
            /\ UNCHANGED <<dungeonVars, storeVars, game_state>>

NextStores ==
    StateSet \/ StateDelete \/ MultiSet \/ MultiDelete \/ MultiAddOne \/ MultiRemoveOne

SpecStores == InitStores /\ [][NextStores]_vars

\* C38: in every state of a keyed store, single-quantity or multi-quantity,
\* reached by set, delete, add_one and remove_one with any keys and items,
\* contains(k) is true exactly when get(k) succeeds, for every key k.
C38_ContainsIffGetSucceeds ==
    \A k \in ItemNames :
        /\ State_contains(items_state, k) <=> State_get(items_state, k).exc = "none"
        /\ contains(character.inventory, k) <=> get(character.inventory, k).exc = "none"

(***************************************************************************)
(* Ini_Entry objects and their equality.  An entry is its class and the    *)
(* values of the attributes its __slots__ name; None is "".                *)
(***************************************************************************)
\* The class a class of elements.py is derived from.
Bases(class) ==
    CASE class \in {"Doorway", "Wooden_Door", "Iron_Door"} -> "Door"
      [] class \in {"Armor", "Shield", "Wand", "Weapon"} -> "Equippable_Item"
      [] class \in {"Equippable_Item", "Coin", "Potion", "Key", "Oddment"} -> "Item"
      [] class \in {"Chest", "Corpse"} -> "Container"
      [] class \in {"Door", "Item", "Container"} -> "Ini_Entry"
      [] OTHER -> "object"

\* The classes isinstance(obj, class) is true of for an obj of this class.
RECURSIVE mro(_)
mro(class) == IF class = "object" THEN {class} ELSE {class} \cup mro(Bases(class))

\* The __slots__ an object of the class sees: those of Item, Door or Container,
\* as no class derived from them declares its own.
slots(class) ==
    IF "Item" \in mro(class)
    THEN {"internal_name", "title", "description", "weight", "value", "damage",
          "attack_bonus", "armor_bonus", "item_type", "warrior_can_use", "thief_can_use",
          "priest_can_use", "mage_can_use", "hit_points_recovered", "mana_points_recovered"}
    ELSE IF "Door" \in mro(class)
    THEN {"internal_name", "title", "description", "door_type", "is_locked", "is_closed",
          "closable", "_linked_rooms_internal_names", "is_exit"}
    ELSE {"internal_name", "title", "description", "is_locked", "is_closed", "container_type"}

\* getattr(obj, attr, None)
getattr(obj, attr) == IF attr \in DOMAIN obj.attrs THEN obj.attrs[attr] ELSE ""

\* The object class(**argd) builds: the attributes given, and None in every
\* other slot.  A Door derives _linked_rooms_internal_names from its
\* internal name, which stands for it here.
Ini_Entry(class, argd) ==
    [class |-> class,
     attrs |-> [attr \in slots(class) |->
                   IF attr \in DOMAIN argd THEN argd[attr]
                   ELSE IF attr = "_linked_rooms_internal_names" THEN argd.internal_name
                   ELSE ""]]

\* __eq__ comparing the slots without looking at the class of other.
Ini_Entry_eq_any_class(self, other) ==
    \A attr \in slots(self.class) : getattr(self, attr) = getattr(other, attr)

\* Ini_Entry.__eq__
Ini_Entry_eq(self, other) ==
    IF self.class \notin mro(other.class)
    THEN FALSE
    ELSE \A attr \in slots(self.class) : getattr(self, attr) = getattr(other, attr)

\* a == b: the __eq__ of b is asked first when the class of b is derived
\* from the class of a, the __eq__ of a otherwise; __eq__ always answers.
eq(a, b) ==
    IF a.class # b.class /\ a.class \in mro(b.class)
    THEN Ini_Entry_eq(b, a)
    ELSE Ini_Entry_eq(a, b)

\* The classes the entries compared are of: base classes, classes derived
\* from them, and classes of different families.
EntryClasses ==
    {"Door", "Iron_Door", "Wooden_Door", "Item", "Equippable_Item", "Weapon", "Wand",
     "Container", "Chest"}

\* The keyword arguments an entry is built with.
EntryArgds ==
    {[internal_name |-> "Entry", title |-> title] : title \in {"iron door", "wooden chest"}}
        \cup {[internal_name |-> "Entry", title |-> title, description |-> "A thing."] :
                 title \in {"iron door", "wooden chest"}}

Entries == {Ini_Entry(class, argd) : class \in EntryClasses, argd \in EntryArgds}

\* Any two entries.
InitEquality ==
    /\ \E a \in Entries, b \in Entries : config = [a |-> a, b |-> b]
    /\ last = Call("", "", NoItem, 0, FALSE, "none")
    /\ items_state = NotBuilt
    /\ doors_state = NotBuilt
    /\ rooms_state = NotBuilt
    /\ creatures_state = NotBuilt
    /\ character = NoCharacter
    /\ NoGame

\* a == b
CompareAB ==
    /\ last' = Call("a == b", "", NoItem, 0, eq(config.a, config.b), "none")
    /\ UNCHANGED <<character, dungeonVars, storeVars, game_state>>

\* b == a
CompareBA ==
    /\ last' = Call("b == a", "", NoItem, 0, eq(config.b, config.a), "none")
    /\ UNCHANGED <<character, dungeonVars, storeVars, game_state>>

NextEquality == CompareAB \/ CompareBA

SpecEquality == InitEquality /\ [][NextEquality]_vars

\* The outcome of the comparison the other way round, once it is made.
Reflected(op) == IF op = "a == b" THEN "b == a" ELSE "a == b"

\* C34: equality of entries is symmetric and holds only between entries of
\* the same concrete class: a == b gives what b == a gives, and when it is
\* true, a and b are of the same class and every declared attribute of the
\* two is equal.
C34_EqualitySymmetricSameClass ==
    [][/\ (last.op # "" /\ last'.op = Reflected(last.op)) => last'.ret = last.ret
       /\ (last'.op # "" /\ last'.ret)
          => /\ config.a.class = config.b.class
             /\ \A attr \in slots(config.a.class) \cup slots(config.b.class) :
                    /\ attr \in DOMAIN config.a.attrs
                    /\ attr \in DOMAIN config.b.attrs
                    /\ config.a.attrs[attr] = config.b.attrs[attr]]_vars

\* Two iron doors with the same attributes compared equal both ways round.
C34_Witness ==
    /\ last.op = "b == a"
    /\ last.ret
    /\ config.a.class = "Iron_Door"
    /\ config.b.class = "Iron_Door"

(***************************************************************************)
(* The attack roll, the damage roll and the attack bonus of a Character.   *)
(* A string is the sequence of its characters, and None the empty one: no  *)
(* roll is an empty string.                                                *)
(***************************************************************************)
Digits == <<"0", "1", "2", "3", "4", "5", "6", "7", "8", "9">>

\* str(n) for n >= 0
RECURSIVE nat_str(_)
nat_str(n) ==
    IF n < 10 THEN <<Digits[n + 1]>> ELSE nat_str(n \div 10) \o <<Digits[(n % 10) + 1]>>

\* str(n)
str(n) == IF n < 0 THEN <<"-">> \o nat_str(0 - n) ELSE nat_str(n)

\* int(s) for a string of digits
RECURSIVE int(_)
int(s) ==
    IF s = << >> THEN 0
    ELSE 10 * int(SubSeq(s, 1, Len(s) - 1))
             + (CHOOSE d \in 0..9 : Digits[d + 1] = s[Len(s)])

\* sep in s
in(sep, s) == \E i \in 1..Len(s) : s[i] = sep

\* s.split(sep): the parts of s between the occurrences of sep.
RECURSIVE split(_, _)
split(s, sep) ==
    IF ~in(sep, s) THEN <<s>>
    ELSE LET i == CHOOSE i \in 1..Len(s) : s[i] = sep /\ \A j \in 1..(i - 1) : s[j] # sep
         IN <<SubSeq(s, 1, i - 1)>> \o split(SubSeq(s, i + 1, Len(s)), sep)

\* Character.attack_roll
attack_roll(self) ==
    IF ~(self.equipment.weapon # NoItem \/ self.equipment.wand # NoItem)
    THEN << >>
    ELSE LET stat_dependency == attack_or_damage_stat_dependency(self)
             stat_mod_value == stat_mod(self.ability_scores[stat_dependency])
             total_mod == item_attacking_with(self).attack_bonus + stat_mod_value
             mod_str == IF total_mod > 0 THEN <<"+">> \o str(total_mod)
                        ELSE IF total_mod < 0 THEN str(total_mod)
                        ELSE << >>
         IN <<"1", "d", "2", "0">> \o mod_str

\* Character.damage_roll
damage_roll(self) ==
    IF ~(self.equipment.weapon # NoItem \/ self.equipment.wand # NoItem)
    THEN << >>
    ELSE LET stat_dependency == attack_or_damage_stat_dependency(self)
             item_damage == item_attacking_with(self).damage
             parts == IF in("+", item_damage) THEN split(item_damage, "+")
                      ELSE IF in("-", item_damage) THEN split(item_damage, "-")
                      ELSE <<item_damage, <<"0">>>>
             damage_base_dice == parts[1]
             damage_mod == int(parts[2])
             total_damage_mod == damage_mod + stat_mod(self.ability_scores[stat_dependency])
         IN damage_base_dice \o (IF total_damage_mod > 0 THEN <<"+">> \o str(total_damage_mod)
                                 ELSE IF total_damage_mod < 0 THEN str(total_damage_mod)
                                 ELSE << >>)

\* Character.attack_bonus
attack_bonus(self) ==
    IF ~(\/ self.equipment.weapon # NoItem
         \/ self.character_class = "Mage" /\ self.equipment.wand # NoItem)
    THEN [value |-> 0, exc |-> "Internal_Exception"]
    ELSE LET stat_dependency == attack_or_damage_stat_dependency(self)
             base_attack_bonus ==
                 IF self.character_class = "Mage"
                 THEN IF self.equipment.wand # NoItem
                      THEN self.equipment.wand.attack_bonus
                      ELSE self.equipment.weapon.attack_bonus
                 ELSE self.equipment.weapon.attack_bonus
         IN [value |-> base_attack_bonus + stat_mod(self.ability_scores[stat_dependency]),
             exc |-> "none"]

(***************************************************************************)
(* A Character of any class and any strength, dexterity and intelligence   *)
(* that picks up and equips weapons and a wand and asks for its rolls.     *)
(***************************************************************************)
\* The fixture's Longsword, Magic_Sword and Magic_Wand, and a weapon whose
\* damage has a negative modifier.
Weaponry ==
    {[internal_name |-> "Longsword", title |-> "longsword", item_type |-> "weapon",
      attack_bonus |-> 0, damage |-> <<"1", "d", "8">>],
     [internal_name |-> "Magic_Sword", title |-> "magic sword", item_type |-> "weapon",
      attack_bonus |-> 3, damage |-> <<"1", "d", "1", "2", "+", "3">>],
     [internal_name |-> "Rusty_Dagger", title |-> "rusty dagger", item_type |-> "weapon",
      attack_bonus |-> 0, damage |-> <<"1", "d", "4", "-", "1">>],
     [internal_name |-> "Magic_Wand", title |-> "magic wand", item_type |-> "wand",
      attack_bonus |-> 3, damage |-> <<"2", "d", "1", "2", "+", "3">>]}

\* Scores whose modifiers are -3, 0 and 3.
AttackScores == {4, 10, 16}

InitAttack ==
    /\ \E c \in Classes, strength \in AttackScores, dexterity \in AttackScores,
          intelligence \in AttackScores :
           character = Character("Lidda", c, 0, 0, "",
                                  ScoresWith([strength |-> strength, dexterity |-> dexterity,
                                              intelligence |-> intelligence])).self
    /\ last = Call("__init__", "", NoItem, 0, << >>, "none")
    /\ NoDungeon /\ NoGame

\* character.pick_up_item(item), of an item not yet held
PickUpWeaponry ==
    \E item \in Weaponry :
        LET r == pick_up_item(character, item, 1)
        IN /\ item.internal_name \notin DOMAIN character.inventory
           /\ character' = r.self
           /\ last' = Call("pick_up_item", item.internal_name, item, 1, << >>, r.exc)
           /\ UNCHANGED <<dungeonVars, storeVars, game_state>>

\* character.equip_weapon(item) or character.equip_wand(item), as the item is
EquipWeaponry ==
    \E item \in Weaponry :
        LET r == equip(character, item.item_type, item)
        IN /\ character' = r.self
           /\ last' = Call("equip_" \o item.item_type, item.internal_name, item, 0, << >>,
                           r.exc)
           /\ UNCHANGED <<dungeonVars, storeVars, game_state>>

\* character.unequip_weapon() or character.unequip_wand()
UnequipWeaponry ==
    \E equipment_slot \in {"weapon", "wand"} :
        /\ character' = unequip(character, equipment_slot)
        /\ last' = Call("unequip", equipment_slot, NoItem, 0, << >>, "none")
        /\ UNCHANGED <<dungeonVars, storeVars, game_state>>

\* character.attack_roll
AttackRoll ==
    /\ last' = Call("attack_roll", "", NoItem, 0, attack_roll(character), "none")
    /\ UNCHANGED <<character, dungeonVars, storeVars, game_state>>

\* character.damage_roll
DamageRoll ==
    /\ last' = Call("damage_roll", "", NoItem, 0, damage_roll(character), "none")
    /\ UNCHANGED <<character, dungeonVars, storeVars, game_state>>

\* character.attack_bonus; the value returned is the arg of the call record.
AttackBonus ==
    /\ LET r == attack_bonus(character)
       IN last' = Call("attack_bonus", "", NoItem, r.value, << >>, r.exc)
    /\ UNCHANGED <<character, dungeonVars, storeVars, game_state>>

NextAttack ==
    \/ PickUpWeaponry \/ EquipWeaponry \/ UnequipWeaponry
    \/ AttackRoll \/ DamageRoll \/ AttackBonus

SpecAttack == InitAttack /\ [][NextAttack]_vars

\* The stat whose modifier enters the rolls: strength for a Warrior and a
\* Priest, dexterity for a Thief, intelligence for a Mage with a wand
\* equipped and strength for a Mage with a weapon and no wand.
AttackStat(c) ==
    CASE c.character_class \in {"Warrior", "Priest"} -> "strength"
      [] c.character_class = "Thief" -> "dexterity"
      [] c.character_class = "Mage" /\ c.equipment.wand # NoItem -> "intelligence"
      [] OTHER -> "strength"

\* The modifier of a score: the score less 10, halved, rounded down.
ModifierOf(score) == FloorHalf(score - 10)

\* The wand if one is equipped, and otherwise the weapon.
AttackingItem(c) == IF c.equipment.wand # NoItem THEN c.equipment.wand ELSE c.equipment.weapon

\* A total of at most two digits written with its sign; nothing for zero.
Signed(t) ==
    LET magnitude == IF t < 0 THEN 0 - t ELSE t
        numeral == IF magnitude < 10 THEN <<Digits[magnitude + 1]>>
                   ELSE <<Digits[(magnitude \div 10) + 1], Digits[(magnitude % 10) + 1]>>
    IN IF t > 0 THEN <<"+">> \o numeral
       ELSE IF t < 0 THEN <<"-">> \o numeral
       ELSE << >>

\* The dice term NdM of a damage expression NdM, NdM+K or NdM-K.
DiceTerm(damage) ==
    LET end == IF \E i \in 1..Len(damage) : damage[i] \in {"+", "-"}
               THEN (CHOOSE i \in 1..Len(damage) : damage[i] \in {"+", "-"}) - 1
               ELSE Len(damage)
    IN SubSeq(damage, 1, end)

\* The flat modifier of a damage expression with a one-digit K: +K, -K or 0.
FlatModifier(damage) ==
    IF Len(DiceTerm(damage)) = Len(damage) THEN 0
    ELSE LET K == CHOOSE d \in 0..9 : Digits[d + 1] = damage[Len(damage)]
         IN IF damage[Len(damage) - 1] = "-" THEN 0 - K ELSE K

\* C31: attack_roll is absent exactly when neither a weapon nor a wand is
\* equipped; otherwise it is "1d20" followed by the total t of the attacking
\* item's attack bonus and the stat modifier, written "+t" when t > 0, "-|t|"
\* when t < 0 and not at all when t = 0; the attacking item is the wand if
\* one is equipped and otherwise the weapon.
C31_AttackRoll ==
    last.op = "attack_roll"
    => /\ last.ret = << >>
          <=> (character.equipment.weapon = NoItem /\ character.equipment.wand = NoItem)
       /\ last.ret # << >>
          => last.ret = <<"1", "d", "2", "0">>
                 \o Signed(AttackingItem(character).attack_bonus
                           + ModifierOf(character.ability_scores[AttackStat(character)]))

\* C32: damage_roll, for an equipped item whose damage is NdM, NdM+K or NdM-K,
\* is the dice term NdM followed by the signed total of the flat modifier of
\* the item (+K, -K or 0) and the stat modifier, the total left out when zero.
C32_DamageRoll ==
    (last.op = "damage_roll"
     /\ (character.equipment.weapon # NoItem \/ character.equipment.wand # NoItem))
    => last.ret = DiceTerm(AttackingItem(character).damage)
           \o Signed(FlatModifier(AttackingItem(character).damage)
                     + ModifierOf(character.ability_scores[AttackStat(character)]))

\* C39: for every class and every combination of equipped weapon and wand,
\* attack_bonus returns a value exactly when attack_roll is present, and the
\* value, written with its sign, is what attack_roll has after "1d20".
C39_AttackBonusMatchesRoll ==
    last.op = "attack_bonus"
    => /\ last.exc = "none" <=> attack_roll(character) # << >>
       /\ last.exc = "none"
          => attack_roll(character) = <<"1", "d", "2", "0">> \o Signed(last.arg)

====
